---------------------------- MODULE Spec2Model ----------------------------
(***************************************************************************)
(* Model of the autonomous-mowing ROI calculator:                          *)
(*   - Calculator (src/public/js/calculator.js): resolveInputs,            *)
(*     calculateROI, withInvestment, calculateProjection;                  *)
(*   - Equipment (src/unnamed/part_001): the catalog singleton _data,      *)
(*     init with its asynchronous fetch, and recommendEquipment.           *)
(*                                                                         *)
(* Numbers.  A JavaScript number is modelled as a pair <<n, d>>:           *)
(*   d > 0      the finite value n/d, kept in lowest terms;                *)
(*   <<0, 0>>   NaN;   <<1, 0>> +Infinity;   <<-1, 0>> -Infinity.          *)
(* The arithmetic is exact (decimal inputs, exact products), so the        *)
(* binary rounding noise of IEEE doubles is not part of the model; NaN     *)
(* propagation, the falsy tests of `x || d` and the rounding direction of  *)
(* Math.round (half towards +Infinity) are.                                *)
(***************************************************************************)
EXTENDS Integers, Sequences, FiniteSets, TLC

VARIABLES
    raw,            \* the raw input map the caller hands to the Calculator
    resolved,       \* value returned by the last resolveInputs call
    result,         \* ROIResult held by the caller (last calculateROI call)
    invest,         \* the investment figures the caller holds: <<totalInvestment, annualServiceCost>>
    ret,            \* value returned by the last withInvestment / calculateProjection call
    _data,          \* Equipment: the catalog in use (null until set)
    _initialized,   \* Equipment: init has settled
    fetch,          \* Equipment: number of fetches started by init and not yet settled
    args,           \* the arguments a caller of Equipment.recommend uses, call after call
    rec,            \* value returned by the last Equipment.recommend call
    recFirst,       \* observer: value returned by the first Equipment.recommend call
    recData,        \* observer: the catalog the last Equipment.recommend call read
    catalogArrived, \* observer: a fetch has delivered a body with a non-empty models array
    shown,          \* the texts the page shows for the investment metrics (null until rendered)
    currentStep,    \* wizard: the step on screen
    maxCompletedStep, \* wizard: the highest step completed
    form,           \* wizard: the values of the form fields validateStep reads
    lastGo,         \* observer: the last goToStep call, with the state it found
    progressDisabled, \* wizard: the disabled attribute of the four progress-bar buttons
    ranOn,          \* observer: what validateStep(1) and (2) say of the form the last runCalculation read
    lead,           \* lead form: its fields, button, status line and requests in flight
    srv             \* lead endpoint: the request being handled and the response given

vars == <<raw, resolved, result, invest, ret, _data, _initialized, fetch, args, rec, recFirst,
         recData, catalogArrived, shown, currentStep, maxCompletedStep, form, lastGo,
         progressDisabled, ranOn, lead, srv>>

calcVars  == <<raw, resolved, result, invest, ret>>
equipVars == <<_data, _initialized, fetch, args, rec, recFirst, recData, catalogArrived>>
uiVars    == <<shown, currentStep, maxCompletedStep, form, lastGo, progressDisabled, ranOn>>
leadVars  == <<lead, srv>>

-----------------------------------------------------------------------------
(* JavaScript numbers *)

NaN    == <<0, 0>>
PosInf == <<1, 0>>
NegInf == <<-1, 0>>

Abs(n) == IF n < 0 THEN -n ELSE n

RECURSIVE GCD(_, _)
GCD(a, b) == IF b = 0 THEN a ELSE GCD(b, a % b)

\* the finite number n/d (d > 0) in lowest terms
Q(n, d) == LET g == GCD(Abs(n), d) IN <<n \div g, d \div g>>

Num(n) == <<n, 1>>
\* a decimal literal with two places, e.g. 3.50 == D2(350)
D2(c)  == Q(c, 100)
Zero   == Num(0)
One    == Num(1)

IsNaN(x)    == x = NaN
IsFinite(x) == x[2] > 0

Sign(n) == IF n > 0 THEN 1 ELSE IF n < 0 THEN -1 ELSE 0

\* a * b: NaN if either operand is NaN, or for 0 * Infinity
Mul(a, b) ==
    IF IsNaN(a) \/ IsNaN(b) THEN NaN
    ELSE IF ~IsFinite(a) \/ ~IsFinite(b) THEN <<Sign(a[1]) * Sign(b[1]), 0>>
    ELSE IF a[1] = 0 \/ b[1] = 0 THEN Zero
    ELSE LET g1 == GCD(Abs(a[1]), b[2])
             g2 == GCD(Abs(b[1]), a[2])
         IN  <<(a[1] \div g1) * (b[1] \div g2), (a[2] \div g2) * (b[2] \div g1)>>

\* a + b: NaN if either operand is NaN, or for Infinity - Infinity
Add(a, b) ==
    IF IsNaN(a) \/ IsNaN(b) THEN NaN
    ELSE IF ~IsFinite(a) THEN (IF IsFinite(b) \/ a = b THEN a ELSE NaN)
    ELSE IF ~IsFinite(b) THEN b
    ELSE LET g == GCD(a[2], b[2])
             l == (a[2] \div g) * b[2]
         IN  Q(a[1] * (l \div a[2]) + b[1] * (l \div b[2]), l)

Neg(a)    == <<-a[1], a[2]>>
Sub(a, b) == Add(a, Neg(b))

\* a / b: x / 0 is +-Infinity (NaN for 0 / 0), x / Infinity is 0
Div(a, b) ==
    IF IsNaN(a) \/ IsNaN(b) THEN NaN
    ELSE IF ~IsFinite(b) THEN (IF IsFinite(a) THEN Zero ELSE NaN)
    ELSE IF b[1] = 0 THEN <<Sign(a[1]), 0>>
    ELSE IF b[1] > 0 THEN Mul(a, <<b[2], b[1]>>)
    ELSE Mul(a, <<-b[2], -b[1]>>)

\* the sign of a - b, for finite a and b
Cmp(a, b) == LET s == Sub(a, b) IN s[1]

\* the JavaScript comparisons: every comparison with NaN is false
Lt(a, b)  == IF IsNaN(a) \/ IsNaN(b) THEN FALSE
             ELSE IF IsFinite(a) /\ IsFinite(b) THEN Cmp(a, b) < 0
             ELSE a # b /\ (a = NegInf \/ b = PosInf)
Leq(a, b) == IF IsNaN(a) \/ IsNaN(b) THEN FALSE ELSE a = b \/ Lt(a, b)
Gt(a, b)  == Lt(b, a)
Geq(a, b) == Leq(b, a)

\* Math.max / Math.min of two numbers: NaN if either is NaN
MathMax(a, b) == IF IsNaN(a) \/ IsNaN(b) THEN NaN ELSE IF Lt(a, b) THEN b ELSE a
MathMin(a, b) == IF IsNaN(a) \/ IsNaN(b) THEN NaN ELSE IF Lt(b, a) THEN b ELSE a

\* Math.round: the nearest integer, a tie going towards +Infinity
MathRound(x) == IF ~IsFinite(x) THEN x ELSE Num((2 * x[1] + x[2]) \div (2 * x[2]))
\* Math.ceil
MathCeil(x)  == IF ~IsFinite(x) THEN x ELSE Num(-((-x[1]) \div x[2]))

RECURSIVE Pow10(_)
Pow10(k) == IF k = 0 THEN 1 ELSE 10 * Pow10(k - 1)

\* Math.pow(b, k) for a natural exponent k
RECURSIVE MathPow(_, _)
MathPow(b, k) == IF k = 0 THEN One ELSE Mul(b, MathPow(b, k - 1))

\* the JavaScript expression  x || d  on numbers: 0 and NaN are falsy
OrElse(x, d) == IF IsNaN(x) \/ x = Zero THEN d ELSE x

\* calculator.js round(value, decimals): Math.round(value * factor) / factor.
\* With value = q + r/d (0 <= r < d), Math.round(value * factor) is
\* q * factor + Math.round(r * factor / d).
roundTo(value, decimals) ==
    IF ~IsFinite(value) THEN value
    ELSE LET factor == Pow10(decimals)
             q == value[1] \div value[2]
             r == value[1] % value[2]
         IN  Q(q * factor + MathRound(Q(r * factor, value[2]))[1], factor)

\* calculator.js round(value) with decimals left undefined: 2 places
round(value) == roundTo(value, 2)

\* calculator.js clamp(value, min, max)
clamp(value, min, max) == MathMax(min, MathMin(max, value))

-----------------------------------------------------------------------------
(* JavaScript values of a raw input map *)

\* null or "nothing yet" where a record is expected: a variable that holds no
\* returned value, a catalog table that is missing, a lookup that found nothing
NoValue == [none |-> TRUE]

Undef    == [k |-> "undefined", v |-> NaN, s |-> ""]
NullV    == [k |-> "null", v |-> NaN, s |-> ""]
NumV(x)  == [k |-> "number", v |-> x, s |-> ""]
StrV(t)  == [k |-> "string", v |-> NaN, s |-> t]
BoolV(b) == [k |-> "boolean", v |-> IF b THEN One ELSE Zero, s |-> ""]

\* the strings of the model that spell a number
NumericStrings == ("12" :> Num(12)) @@ ("7.5" :> Q(15, 2)) @@ ("-4" :> Num(-4))

\* Number(s) for a string: "" is 0, a numeric string its value, anything else NaN
StringToNumber(t) ==
    IF t = "" THEN Zero
    ELSE IF t \in DOMAIN NumericStrings THEN NumericStrings[t]
    ELSE NaN

\* Number(x)
ToNumber(x) ==
    CASE x.k = "undefined" -> NaN
      [] x.k = "null"      -> Zero
      [] x.k = "number"    -> x.v
      [] x.k = "boolean"   -> x.v
      [] x.k = "string"    -> StringToNumber(x.s)

\* Boolean(x): undefined, null, 0, NaN, "" and false are falsy
Truthy(x) ==
    CASE x.k = "undefined" -> FALSE
      [] x.k = "null"      -> FALSE
      [] x.k = "number"    -> ~IsNaN(x.v) /\ x.v # Zero
      [] x.k = "boolean"   -> x.v = One
      [] x.k = "string"    -> x.s # ""

-----------------------------------------------------------------------------
(* Calculator: resolveInputs *)

PROPERTY_DEFAULTS ==
    [commercial |-> [mowingTimePerAcre |-> Num(45), mowsPerWeek |-> Num(1), fuelPerAcre |-> D2(75)],
     golf       |-> [mowingTimePerAcre |-> Num(60), mowsPerWeek |-> Num(3), fuelPerAcre |-> Num(1)],
     athletic   |-> [mowingTimePerAcre |-> Num(50), mowsPerWeek |-> Num(2), fuelPerAcre |-> D2(85)]]

\* keys every object literal inherits from Object.prototype (a sample of them)
ObjectPrototypeKeys == {"constructor", "toString"}

\* PROPERTY_DEFAULTS[pt] || PROPERTY_DEFAULTS.commercial
\* An inherited key yields a function object, which is truthy and has none of
\* the three properties: each reads as undefined, NaN wherever it is used as a number.
propDefaultsOf(pt) ==
    IF pt.k = "string" /\ pt.s \in DOMAIN PROPERTY_DEFAULTS THEN PROPERTY_DEFAULTS[pt.s]
    ELSE IF pt.k = "string" /\ pt.s \in ObjectPrototypeKeys
         THEN [mowingTimePerAcre |-> NaN, mowsPerWeek |-> NaN, fuelPerAcre |-> NaN]
    ELSE PROPERTY_DEFAULTS.commercial

\* Number(x) || d
NumberOr(x, d) == OrElse(ToNumber(x), d)

\* Number(x !== undefined ? x : d)
NumberOrDefault(x, d) == IF x.k # "undefined" THEN ToNumber(x) ELSE d

resolveInputs(r) ==
    LET pt           == IF Truthy(r.propertyType) THEN r.propertyType ELSE StrV("commercial")
        propDefaults == propDefaultsOf(pt)
    IN  [propertyType         |-> pt,
         acreage              |-> MathMax(NumberOr(r.acreage, Zero), Zero),
         seasonWeeks          |-> MathMax(NumberOr(r.seasonWeeks, Num(30)), One),
         mowsPerWeek          |-> propDefaults.mowsPerWeek,
         maintenanceType      |-> IF r.maintenanceType = StrV("outsourced")
                                  THEN "outsourced" ELSE "inhouse",
         employees            |-> MathMax(NumberOr(r.employees, Zero), Zero),
         hourlyRate           |-> MathMax(NumberOr(r.hourlyRate, Zero), Zero),
         mowingTimePercent    |-> clamp(NumberOr(r.mowingTimePercent, Zero), Zero, Num(100)),
         isLeased             |-> Truthy(r.isLeased),
         monthlyContract      |-> MathMax(NumberOr(r.monthlyContract, Zero), Zero),
         benefitsRate         |-> clamp(NumberOrDefault(r.benefitsRate, Num(12)), Zero, Num(100)),
         fuelCostPerGallon    |-> MathMax(NumberOrDefault(r.fuelCostPerGallon, D2(350)), Zero),
         laborReduction       |-> clamp(NumberOrDefault(r.laborReduction, Num(85)), Num(50), Num(95)),
         bufferTime           |-> clamp(NumberOrDefault(r.bufferTime, Num(15)), Num(5), Num(40)),
         annualLaborIncrease  |-> clamp(NumberOrDefault(r.annualLaborIncrease, D2(250)), Zero, Num(10)),
         fuelPerAcre          |-> MathMax(NumberOrDefault(r.fuelPerAcre, propDefaults.fuelPerAcre), Zero),
         annualFuelIncrease   |-> clamp(NumberOrDefault(r.annualFuelIncrease, D2(350)), Zero, Num(15)),
         baseEquipmentCost    |-> MathMax(NumberOrDefault(r.baseEquipmentCost, Num(15000)), Zero),
         equipmentCostPerAcre |-> MathMax(NumberOrDefault(r.equipmentCostPerAcre, Num(2000)), Zero),
         maintenanceRate      |-> clamp(NumberOrDefault(r.maintenanceRate, Num(10)), Num(5), Num(25)),
         insuranceRate        |-> clamp(NumberOrDefault(r.insuranceRate, Num(5)), One, Num(15)),
         leasingPremium       |-> clamp(NumberOrDefault(r.leasingPremium, Num(7)), Zero, Num(20)),
         roboticMaintenance   |-> MathMax(NumberOrDefault(r.roboticMaintenance, Num(3)), Zero),
         electricityPerAcre   |-> MathMax(NumberOrDefault(r.electricityPerAcre, D2(150)), Zero),
         co2PerGallon         |-> MathMax(NumberOrDefault(r.co2PerGallon, D2(1959)), Zero),
         mowingTimePerAcre    |-> MathMax(NumberOrDefault(r.mowingTimePerAcre,
                                                          propDefaults.mowingTimePerAcre), Zero),
         automationLevel      |-> clamp(NumberOrDefault(r.automationLevel, Num(50)), Num(25), Num(100)),
         desiredMowingTime    |-> clamp(NumberOrDefault(r.desiredMowingTime, Num(20)), Num(5), Num(60))]

-----------------------------------------------------------------------------
(* Calculator: calculateROI *)

\* x / 100
Pct(x) == Mul(x, Q(1, 100))

\* the product of the numbers of a sequence, left to right
RECURSIVE Prod(_)
Prod(xs) == IF Len(xs) = 0 THEN One
            ELSE Mul(Prod(SubSeq(xs, 1, Len(xs) - 1)), xs[Len(xs)])

Fields ==
    {"propertyType", "acreage", "seasonWeeks", "maintenanceType", "employees", "hourlyRate",
     "mowingTimePercent", "isLeased", "monthlyContract", "benefitsRate", "fuelCostPerGallon",
     "laborReduction", "bufferTime", "annualLaborIncrease", "fuelPerAcre", "annualFuelIncrease",
     "baseEquipmentCost", "equipmentCostPerAcre", "maintenanceRate", "insuranceRate",
     "leasingPremium", "roboticMaintenance", "electricityPerAcre", "co2PerGallon",
     "mowingTimePerAcre", "automationLevel", "desiredMowingTime"}

\* the input map {} : every field undefined
EmptyInput == [f \in Fields |-> Undef]
\* a missing (null / undefined) input map
NoInput == [absent |-> TRUE]

outsourced(i) == i.maintenanceType = "outsourced"

\* i.automationLevel / 100
auto(i) == Pct(i.automationLevel)

\* ------ current annual costs ------
laborCostOf(i) ==
    round(IF outsourced(i) THEN Mul(i.monthlyContract, Num(12))
          ELSE Prod(<<i.employees, i.hourlyRate, Add(One, Pct(i.benefitsRate)), Num(40),
                      i.seasonWeeks, Pct(i.mowingTimePercent), Add(One, Pct(i.bufferTime))>>))

fuelCostOf_inhouseOnly(i) ==
    round(Prod(<<i.acreage, i.fuelPerAcre, i.mowsPerWeek, i.seasonWeeks, i.fuelCostPerGallon>>))

fuelCostOf(i) ==
    round(IF outsourced(i) THEN Zero
          ELSE Prod(<<i.acreage, i.fuelPerAcre, i.mowsPerWeek, i.seasonWeeks,
                      i.fuelCostPerGallon>>))

equipmentAnnualCostOf(i) ==
    LET equipmentBaseCost == Add(i.baseEquipmentCost, Mul(i.equipmentCostPerAcre, i.acreage))
        owned == Mul(equipmentBaseCost, Add(Pct(i.maintenanceRate), Pct(i.insuranceRate)))
    IN  round(IF outsourced(i) THEN Zero
              ELSE IF i.isLeased THEN Mul(owned, Add(One, Pct(i.leasingPremium)))
              ELSE owned)

totalCurrentCostOf_noEquipment(laborCost, fuelCost, equipmentAnnualCost) ==
    round(Add(laborCost, fuelCost))

totalCurrentCostOf(laborCost, fuelCost, equipmentAnnualCost) ==
    round(Add(Add(laborCost, fuelCost), equipmentAnnualCost))

\* ------ savings from automation ------
laborSavingsOf_alwaysLaborReduction(i, laborCost) ==
    round(Prod(<<laborCost, auto(i), Pct(i.laborReduction)>>))

laborSavingsOf(i, laborCost) ==
    IF outsourced(i) THEN round(Prod(<<laborCost, auto(i), D2(85)>>))
    ELSE round(Prod(<<laborCost, auto(i), Pct(i.laborReduction)>>))

fuelSavingsOf(i, fuelCost) ==
    IF outsourced(i) THEN Zero ELSE round(Mul(fuelCost, auto(i)))

equipmentSavingsOf(i, equipmentAnnualCost) ==
    IF outsourced(i) THEN Zero ELSE round(Prod(<<equipmentAnnualCost, auto(i), Q(1, 2)>>))

grossSavingsOf(laborSavings, fuelSavings, equipmentSavings) ==
    round(Add(Add(laborSavings, fuelSavings), equipmentSavings))

\* ------ new robotic costs ------
roboticMaintenanceCostOf(i) ==
    round(Prod(<<i.acreage, auto(i), i.roboticMaintenance, Num(12)>>))

electricityCostOf(i) ==
    round(Prod(<<i.acreage, auto(i), i.electricityPerAcre, D2(12), i.mowsPerWeek,
                 i.seasonWeeks>>))

totalNewCostsOf(roboticMaintenanceCost, electricityCost) ==
    round(Add(roboticMaintenanceCost, electricityCost))

\* ------ key results ------
netAnnualSavingsOf(grossSavings, totalNewCosts) == round(Sub(grossSavings, totalNewCosts))

\* ------ labor analysis ------
laborAnalysisOf(i) ==
    LET currentMowingHours ==
            MathRound(Prod(<<i.acreage, Mul(i.mowingTimePerAcre, Q(1, 60)), i.mowsPerWeek,
                             i.seasonWeeks>>))
        laborHoursSaved ==
            MathRound(Prod(<<currentMowingHours, auto(i), Pct(i.laborReduction)>>))
        currentFTE == IF outsourced(i) THEN Zero ELSE i.employees
        reducedFTE ==
            IF outsourced(i) THEN Zero
            ELSE MathMax(Zero, roundTo(Mul(currentFTE,
                                           Sub(One, Mul(auto(i), Pct(i.laborReduction)))), 1))
    IN  [currentHours |-> currentMowingHours, hoursSaved |-> laborHoursSaved,
         currentFTE |-> currentFTE, reducedFTE |-> reducedFTE]

\* ------ environmental impact ------
environmentalOf(i) ==
    LET co2Reduced ==
            round(Prod(<<i.acreage, auto(i), i.fuelPerAcre, i.co2PerGallon, i.mowsPerWeek,
                         i.seasonWeeks>>))
        fuelGallonsSaved ==
            round(Prod(<<i.acreage, auto(i), i.fuelPerAcre, i.mowsPerWeek, i.seasonWeeks>>))
    IN  [co2Reduced |-> co2Reduced, fuelGallonsSaved |-> fuelGallonsSaved,
         treeEquivalents |-> round(Mul(co2Reduced, Q(1, 48))), noiseReduction |-> Num(30)]

\* the ROIResult; its withInvestment closure is the operator withInvestment below,
\* applied to this record (the closure captures netAnnualSavings)
calculateROI(rawInputs) ==
    LET i  == resolveInputs(IF rawInputs = NoInput THEN EmptyInput ELSE rawInputs)
        laborCost           == laborCostOf(i)
        fuelCost            == fuelCostOf(i)
        equipmentAnnualCost == equipmentAnnualCostOf(i)
        totalCurrentCost    == totalCurrentCostOf(laborCost, fuelCost, equipmentAnnualCost)
        laborSavings        == laborSavingsOf(i, laborCost)
        fuelSavings         == fuelSavingsOf(i, fuelCost)
        equipmentSavings    == equipmentSavingsOf(i, equipmentAnnualCost)
        grossSavings        == grossSavingsOf(laborSavings, fuelSavings, equipmentSavings)
        roboticMaintenanceCost == roboticMaintenanceCostOf(i)
        electricityCost     == electricityCostOf(i)
        totalNewCosts       == totalNewCostsOf(roboticMaintenanceCost, electricityCost)
        netAnnualSavings    == netAnnualSavingsOf(grossSavings, totalNewCosts)
    IN  [currentCosts |-> [labor |-> laborCost, fuel |-> fuelCost,
                           equipment |-> equipmentAnnualCost, total |-> totalCurrentCost],
         savings      |-> [labor |-> laborSavings, fuel |-> fuelSavings,
                           equipment |-> equipmentSavings, gross |-> grossSavings],
         newCosts     |-> [maintenance |-> roboticMaintenanceCost,
                           electricity |-> electricityCost, total |-> totalNewCosts],
         netAnnualSavings |-> netAnnualSavings,
         labor        |-> laborAnalysisOf(i),
         environmental |-> environmentalOf(i),
         inputs       |-> i,
         _internal    |-> [laborCost |-> laborCost, fuelCost |-> fuelCost,
                           equipmentAnnualCost |-> equipmentAnnualCost,
                           roboticMaintenanceCost |-> roboticMaintenanceCost,
                           electricityCost |-> electricityCost,
                           totalNewCosts |-> totalNewCosts]]

-----------------------------------------------------------------------------
(* Calculator: withInvestment, the closure every ROIResult carries *)

\* Math.max(Number(x) || 0, 0)
NonNegativeOrZero(x) == MathMax(NumberOr(x, Zero), Zero)

\* withInvestment without its `else if (effectiveSavings <= 0)` branch
withInvestment_noInfiniteBranch(baseResults, rawInvestment, rawService) ==
    LET totalInvestment   == NonNegativeOrZero(rawInvestment)
        annualServiceCost == NonNegativeOrZero(rawService)
        effectiveSavings  == Sub(baseResults.netAnnualSavings, annualServiceCost)
        years             == roundTo(Div(totalInvestment, effectiveSavings), 2)
    IN  IF totalInvestment = Zero
        THEN [roi |-> IF Gt(effectiveSavings, Zero) THEN PosInf ELSE Zero,
              paybackYears |-> Zero, paybackMonths |-> Zero,
              totalInvestment |-> totalInvestment, annualServiceCost |-> annualServiceCost]
        ELSE [roi |-> round(Mul(Div(effectiveSavings, totalInvestment), Num(100))),
              paybackYears |-> years, paybackMonths |-> roundTo(Mul(years, Num(12)), 1),
              totalInvestment |-> totalInvestment, annualServiceCost |-> annualServiceCost]

\* withInvestment without its `if (totalInvestment === 0)` branch
withInvestment_noZeroBranch(baseResults, rawInvestment, rawService) ==
    LET totalInvestment   == NonNegativeOrZero(rawInvestment)
        annualServiceCost == NonNegativeOrZero(rawService)
        effectiveSavings  == Sub(baseResults.netAnnualSavings, annualServiceCost)
        years             == roundTo(Div(totalInvestment, effectiveSavings), 2)
    IN  IF Leq(effectiveSavings, Zero)
        THEN [roi |-> round(Mul(Div(effectiveSavings, totalInvestment), Num(100))),
              paybackYears |-> PosInf, paybackMonths |-> PosInf,
              totalInvestment |-> totalInvestment, annualServiceCost |-> annualServiceCost]
        ELSE [roi |-> round(Mul(Div(effectiveSavings, totalInvestment), Num(100))),
              paybackYears |-> years, paybackMonths |-> roundTo(Mul(years, Num(12)), 1),
              totalInvestment |-> totalInvestment, annualServiceCost |-> annualServiceCost]

\* withInvestment taking paybackMonths from the unrounded payback time
withInvestment_monthsFromExactYears(baseResults, rawInvestment, rawService) ==
    LET totalInvestment   == NonNegativeOrZero(rawInvestment)
        annualServiceCost == NonNegativeOrZero(rawService)
        effectiveSavings  == Sub(baseResults.netAnnualSavings, annualServiceCost)
        roiPercent        == round(Mul(Div(effectiveSavings, totalInvestment), Num(100)))
        exactYears        == Div(totalInvestment, effectiveSavings)
    IN  IF totalInvestment = Zero
        THEN [roi |-> IF Gt(effectiveSavings, Zero) THEN PosInf ELSE Zero,
              paybackYears |-> Zero, paybackMonths |-> Zero,
              totalInvestment |-> totalInvestment, annualServiceCost |-> annualServiceCost]
        ELSE IF Leq(effectiveSavings, Zero)
        THEN [roi |-> roiPercent,
              paybackYears |-> PosInf, paybackMonths |-> PosInf,
              totalInvestment |-> totalInvestment, annualServiceCost |-> annualServiceCost]
        ELSE [roi |-> roiPercent,
              paybackYears |-> roundTo(exactYears, 2),
              paybackMonths |-> roundTo(Mul(exactYears, Num(12)), 1),
              totalInvestment |-> totalInvestment, annualServiceCost |-> annualServiceCost]

withInvestment(baseResults, rawInvestment, rawService) ==
    LET totalInvestment   == NonNegativeOrZero(rawInvestment)
        annualServiceCost == NonNegativeOrZero(rawService)
        effectiveSavings  == Sub(baseResults.netAnnualSavings, annualServiceCost)
        roiPercent        == round(Mul(Div(effectiveSavings, totalInvestment), Num(100)))
        years             == roundTo(Div(totalInvestment, effectiveSavings), 2)
    IN  IF totalInvestment = Zero
        THEN [roi |-> IF Gt(effectiveSavings, Zero) THEN PosInf ELSE Zero,
              paybackYears |-> Zero, paybackMonths |-> Zero,
              totalInvestment |-> totalInvestment, annualServiceCost |-> annualServiceCost]
        ELSE IF Leq(effectiveSavings, Zero)
        THEN [roi |-> roiPercent,
              paybackYears |-> PosInf, paybackMonths |-> PosInf,
              totalInvestment |-> totalInvestment, annualServiceCost |-> annualServiceCost]
        ELSE [roi |-> roiPercent,
              paybackYears |-> years, paybackMonths |-> roundTo(Mul(years, Num(12)), 1),
              totalInvestment |-> totalInvestment, annualServiceCost |-> annualServiceCost]

-----------------------------------------------------------------------------
(* Calculator: calculateProjection *)

\* the loop bound of the projection: for (year = 1; year <= 5; year++)
ProjectionYears == 5

traditionalCostOf_equipmentCompounds(int, laborMultiplier, fuelMultiplier) ==
    round(Add(Add(Mul(int.laborCost, laborMultiplier),
                  Mul(int.fuelCost, fuelMultiplier)),
              Mul(int.equipmentAnnualCost, laborMultiplier)))

\* traditional (status-quo) cost of one year; int is baseResults._internal
traditionalCostOf(int, laborMultiplier, fuelMultiplier) ==
    round(Add(Add(Mul(int.laborCost, laborMultiplier),
                  Mul(int.fuelCost, fuelMultiplier)),
              int.equipmentAnnualCost))

\* one pass of the loop body for `year`, then the remaining years; cumTraditional,
\* cumAutomated and projection are the loop's running variables
RECURSIVE projectionLoop(_, _, _, _, _, _, _)
projectionLoop(baseResults, totalInvestment, annualServiceCost, year, cumTraditional, cumAutomated, projection) ==
    IF year > ProjectionYears THEN projection
    ELSE
    LET i   == baseResults.inputs
        int == baseResults._internal
        laborMultiplier == MathPow(Add(One, Pct(i.annualLaborIncrease)), year)
        fuelMultiplier  == MathPow(Add(One, Pct(i.annualFuelIncrease)), year)
        traditionalCost == traditionalCostOf(int, laborMultiplier, fuelMultiplier)
        automatedCost ==
            round(Add(Add(Add(Add(
                Prod(<<int.laborCost, Sub(One, Mul(auto(i), Pct(i.laborReduction))),
                       laborMultiplier>>),
                Prod(<<int.fuelCost, Sub(One, auto(i)), fuelMultiplier>>)),
                Mul(int.equipmentAnnualCost, Sub(One, Mul(auto(i), Q(1, 2))))),
                int.totalNewCosts),
                annualServiceCost))
        cumT == Add(cumTraditional, traditionalCost)
        cumA == Add(cumAutomated, automatedCost)
        entry ==
            [year                  |-> year,
             laborMultiplier       |-> roundTo(laborMultiplier, 4),
             fuelMultiplier        |-> roundTo(fuelMultiplier, 4),
             traditionalCost       |-> traditionalCost,
             automatedCost         |-> automatedCost,
             annualSavings         |-> round(Sub(traditionalCost, automatedCost)),
             cumulativeTraditional |-> round(cumT),
             cumulativeAutomated   |-> round(Add(cumA, totalInvestment)),
             cumulativeSavings     |-> round(Sub(cumT, Add(cumA, totalInvestment)))]
    IN  projectionLoop(baseResults, totalInvestment, annualServiceCost, year + 1,
                       cumT, cumA, Append(projection, entry))

\* calculateProjection with the investment also folded into the running automated total
calculateProjection_investmentInRunningTotal(baseResults, rawInvestment, rawService) ==
    projectionLoop(baseResults, NonNegativeOrZero(rawInvestment),
                   NonNegativeOrZero(rawService), 1, Zero,
                   NonNegativeOrZero(rawInvestment), <<>>)

calculateProjection(baseResults, rawInvestment, rawService) ==
    projectionLoop(baseResults, NonNegativeOrZero(rawInvestment),
                   NonNegativeOrZero(rawService), 1, Zero, Zero, <<>>)

-----------------------------------------------------------------------------
(* Equipment: the catalog and recommendEquipment *)

Model(shortName, price, coverage) ==
    [name |-> shortName, shortName |-> shortName, price |-> price, coverage |-> coverage]

\* a catalog value: FALLBACK_DATA, or the parsed body of /data/equipment.json.
\* truthy: the value is not null; modelsIsArray: Array.isArray(value.models);
\* a table the value lacks is NoValue.
Catalog(models, accessories, services, installation) ==
    [truthy |-> TRUE, modelsIsArray |-> TRUE, models |-> models,
     accessories |-> accessories, services |-> services, installation |-> installation]

FALLBACK_DATA ==
    Catalog(<<Model("520 EPOS", D2(329999), Q(5, 4)),
              Model("520H EPOS", D2(329999), Q(5, 4)),
              Model("535 AWD EPOS", D2(499999), Q(5, 4)),
              Model("550 EPOS", D2(582999), Q(5, 2)),
              Model("550H EPOS", D2(529999), Q(5, 2))>>,
            [referenceStation |-> D2(89999), housing |-> D2(17199)],
            [annualMaintenance |-> Num(249), remoteSupport |-> D2(9499),
             winterStorage |-> D2(14999)],
            [perUnit |-> Num(1500), flat |-> Num(500)])

\* String.prototype.toLowerCase on the strings of the model
toLowerCase(t) ==
    CASE t = "Golf" -> "golf"
      [] t = "COMMERCIAL" -> "commercial"
      [] OTHER -> t

\* getModelByShortName: the first model with that shortName, or null (NoValue)
getModelByShortName(data, shortName) ==
    IF ~data.truthy \/ ~data.modelsIsArray THEN NoValue
    ELSE LET hits == {k \in 1..Len(data.models) : data.models[k].shortName = shortName}
         IN  IF hits = {} THEN NoValue
             ELSE data.models[CHOOSE k \in hits : \A j \in hits : k <= j]

modelShortNameOf_ignoresTerrain(propertyType, isHilly, targetAcreage) ==
    IF propertyType = "golf"
    THEN (IF Leq(targetAcreage, Num(2)) THEN "520H EPOS" ELSE "550H EPOS")
    ELSE (IF Leq(targetAcreage, Num(2)) THEN "520 EPOS" ELSE "550 EPOS")

\* the model selection table
modelShortNameOf(propertyType, isHilly, targetAcreage) ==
    IF propertyType = "golf" \/ isHilly
    THEN (IF Leq(targetAcreage, Num(2)) THEN "520H EPOS" ELSE "550H EPOS")
    ELSE (IF Leq(targetAcreage, Num(2)) THEN "520 EPOS" ELSE "550 EPOS")

unitsNeededOf_noMinimum(targetAcreage, coverage) == MathCeil(Div(targetAcreage, coverage))

\* Math.max(1, Math.ceil(targetAcreage / model.coverage))
unitsNeededOf(targetAcreage, coverage) == MathMax(One, MathCeil(Div(targetAcreage, coverage)))

housingCostOf_onePerSite(data, unitsNeeded) == data.accessories.housing

\* unitsNeeded * _data.accessories.housing.price
housingCostOf(data, unitsNeeded) == Mul(unitsNeeded, data.accessories.housing)

totalInvestmentOf_noSetup(totalEquipmentCost, installationCost, setupCost) ==
    Add(totalEquipmentCost, installationCost)

\* totalEquipmentCost + installationCost + setupCost
totalInvestmentOf(totalEquipmentCost, installationCost, setupCost) ==
    Add(Add(totalEquipmentCost, installationCost), setupCost)

\* what a call that ends in an uncaught TypeError leaves its caller with
Threw == [threw |-> "TypeError"]

\* recommendEquipment once _data is known to be `data` (not null).
\* Labels of the breakdown rows are left out: each row is named by the cost it carries.
recommendEquipment(data, rawPropertyType, rawAcreage, rawAutomationLevel, rawIsHilly) ==
    LET acreage         == MathMax(Zero, NumberOr(rawAcreage, Zero))
        automationLevel == MathMin(Num(100), MathMax(Zero, NumberOr(rawAutomationLevel, Zero)))
        isHilly         == Truthy(rawIsHilly)
        pt              == IF Truthy(rawPropertyType) THEN rawPropertyType ELSE StrV("commercial")
        propertyType    == toLowerCase(pt.s)
        targetAcreage   == Mul(acreage, Pct(automationLevel))
        found           == getModelByShortName(data, modelShortNameOf(propertyType, isHilly, targetAcreage))
        \* `model = _data.models[0]` throws unless _data.models is an array; an empty
        \* array leaves model undefined and `model.coverage` throws
        noModel         == found = NoValue /\ (~data.modelsIsArray \/ Len(data.models) = 0)
        model           == IF found = NoValue THEN data.models[1] ELSE found
        unitsNeeded     == unitsNeededOf(targetAcreage, model.coverage)
        equipmentCost        == Mul(unitsNeeded, model.price)
        referenceStationCost == data.accessories.referenceStation
        housingCost          == housingCostOf(data, unitsNeeded)
        totalEquipmentCost   == Add(Add(equipmentCost, referenceStationCost), housingCost)
        installationCost     == Mul(unitsNeeded, data.installation.perUnit)
        setupCost            == data.installation.flat
        annualMaintenanceCost == Mul(unitsNeeded, data.services.annualMaintenance)
        remoteSupportCost     == data.services.remoteSupport
        winterStorageCost     == Mul(unitsNeeded, data.services.winterStorage)
        annualServiceCost     == Add(Add(annualMaintenanceCost, remoteSupportCost), winterStorageCost)
        totalInvestment       == totalInvestmentOf(totalEquipmentCost, installationCost, setupCost)
    IN  IF pt.k # "string" \/ noModel \/ data.accessories = NoValue
           \/ data.installation = NoValue \/ data.services = NoValue
        THEN Threw
        ELSE [model |-> model,
              unitsNeeded |-> unitsNeeded,
              targetAcreage |-> targetAcreage,
              costs |-> [mowers |-> equipmentCost, referenceStation |-> referenceStationCost,
                         housing |-> housingCost, installation |-> installationCost,
                         setup |-> setupCost, totalEquipment |-> totalEquipmentCost,
                         totalInvestment |-> totalInvestment,
                         annualService |-> annualServiceCost],
              breakdown |-> <<[item |-> "mowers", amount |-> equipmentCost],
                              [item |-> "referenceStation", amount |-> referenceStationCost],
                              [item |-> "housing", amount |-> housingCost],
                              [item |-> "installation", amount |-> installationCost],
                              [item |-> "setup", amount |-> setupCost]>>,
              annualBreakdown |-> <<[item |-> "annualMaintenance", amount |-> annualMaintenanceCost],
                                    [item |-> "remoteSupport", amount |-> remoteSupportCost],
                                    [item |-> "winterStorage", amount |-> winterStorageCost]>>]

-----------------------------------------------------------------------------
(* Callers of the Calculator: the inputs they build and the calls they make *)

\* largest number of fields a caller of resolveInputs sets in its input map
MaxFields == 1

\* numbers a caller may put in a numeric field: below, inside and above every range
NumberSamples == {Num(-5), Zero, Num(3), Num(30), Num(75), Num(200), Q(5, 2)}

NumericChoices ==
    {NullV, NumV(NaN), StrV("abc"), StrV(""), StrV("12")} \cup {NumV(x) : x \in NumberSamples}

RawChoices(f) ==
    CASE f = "propertyType" ->
             {NullV, StrV(""), StrV("commercial"), StrV("golf"), StrV("athletic"),
              StrV("resort"), StrV("Golf"), StrV("constructor")}
      [] f = "maintenanceType" ->
             {NullV, StrV("outsourced"), StrV("inhouse"), StrV("in-house"), StrV("Outsourced")}
      [] f = "isLeased" -> {BoolV(TRUE), BoolV(FALSE), StrV("yes")}
      [] OTHER -> NumericChoices

\* the caller sets one field of its input map; what an earlier call returned is dropped
SetField(f, v) ==
    /\ raw[f] = Undef
    /\ Cardinality({g \in Fields : raw[g] # Undef}) < MaxFields
    /\ raw' = [raw EXCEPT ![f] = v]
    /\ resolved' = NoValue
    /\ UNCHANGED <<result, invest, ret, equipVars, uiVars, leadVars>>

\* the caller removes one field from its input map
ClearField(f) ==
    /\ raw[f] # Undef
    /\ raw' = [raw EXCEPT ![f] = Undef]
    /\ resolved' = NoValue
    /\ UNCHANGED <<result, invest, ret, equipVars, uiVars, leadVars>>

ResolveInputs ==
    /\ resolved' = resolveInputs(raw)
    /\ UNCHANGED <<raw, result, invest, ret, equipVars, uiVars, leadVars>>

\* ---- scenarios handed to calculateROI ----

With(r, f, v) == [r EXCEPT ![f] = v]

\* the worked example: 10 commercial acres, 30 weeks, two employees at $20
ExampleInput ==
    [EmptyInput EXCEPT
        !["propertyType"] = StrV("commercial"), !["acreage"] = NumV(Num(10)),
        !["seasonWeeks"] = NumV(Num(30)), !["maintenanceType"] = StrV("inhouse"),
        !["employees"] = NumV(Num(2)), !["hourlyRate"] = NumV(Num(20)),
        !["mowingTimePercent"] = NumV(Num(60)), !["benefitsRate"] = NumV(Num(12)),
        !["fuelCostPerGallon"] = NumV(D2(350)), !["laborReduction"] = NumV(Num(85)),
        !["bufferTime"] = NumV(Num(15)), !["automationLevel"] = NumV(Num(50)),
        !["annualLaborIncrease"] = NumV(Zero), !["annualFuelIncrease"] = NumV(Zero)]

\* an in-house crew with round costs: labor 25000, fuel 1000, equipment 2000
InhouseInput ==
    [EmptyInput EXCEPT
        !["propertyType"] = StrV("commercial"), !["acreage"] = NumV(Num(10)),
        !["seasonWeeks"] = NumV(Num(20)), !["maintenanceType"] = StrV("inhouse"),
        !["employees"] = NumV(One), !["hourlyRate"] = NumV(Num(25)),
        !["mowingTimePercent"] = NumV(Num(100)), !["benefitsRate"] = NumV(Zero),
        !["bufferTime"] = NumV(Num(25)), !["fuelPerAcre"] = NumV(One),
        !["fuelCostPerGallon"] = NumV(Num(5)), !["baseEquipmentCost"] = NumV(Num(10000)),
        !["equipmentCostPerAcre"] = NumV(Zero), !["maintenanceRate"] = NumV(Num(10)),
        !["insuranceRate"] = NumV(Num(10)), !["leasingPremium"] = NumV(Num(10)),
        !["annualLaborIncrease"] = NumV(Num(10)), !["annualFuelIncrease"] = NumV(Num(10))]

\* an outsourced golf course: a $1000 monthly contract
OutsourcedInput ==
    [EmptyInput EXCEPT
        !["propertyType"] = StrV("golf"), !["acreage"] = NumV(Num(20)),
        !["seasonWeeks"] = NumV(Num(20)), !["maintenanceType"] = StrV("outsourced"),
        !["monthlyContract"] = NumV(Num(1000)), !["employees"] = NumV(Num(3)),
        !["hourlyRate"] = NumV(Num(25)), !["fuelCostPerGallon"] = NumV(Num(5)),
        !["annualLaborIncrease"] = NumV(Num(10)), !["annualFuelIncrease"] = NumV(Zero)]

\* a crew without land or equipment whose net annual savings are $500 (two weeks)
\* or $1000 (four weeks) at 50% automation and 50% labor reduction
SmallInput ==
    [EmptyInput EXCEPT
        !["acreage"] = NumV(Zero), !["seasonWeeks"] = NumV(Num(2)),
        !["employees"] = NumV(One), !["hourlyRate"] = NumV(Num(25)),
        !["mowingTimePercent"] = NumV(Num(80)), !["benefitsRate"] = NumV(Zero),
        !["bufferTime"] = NumV(Num(25)), !["baseEquipmentCost"] = NumV(Zero),
        !["laborReduction"] = NumV(Num(50)), !["automationLevel"] = NumV(Num(50)),
        !["annualLaborIncrease"] = NumV(Zero), !["annualFuelIncrease"] = NumV(Zero)]

\* a small outsourced contract of $10.20 a month, rising 10% a year
CentsInput ==
    [EmptyInput EXCEPT
        !["acreage"] = NumV(Zero), !["maintenanceType"] = StrV("outsourced"),
        !["monthlyContract"] = NumV(D2(1020)), !["automationLevel"] = NumV(Num(50)),
        !["laborReduction"] = NumV(Num(50)),
        !["annualLaborIncrease"] = NumV(Num(10)), !["annualFuelIncrease"] = NumV(Zero)]

\* an outsourced contract quoted in fractions of a cent: 0.8338 a month, fully automated
SubCentInput ==
    [EmptyInput EXCEPT
        !["acreage"] = NumV(Zero), !["maintenanceType"] = StrV("outsourced"),
        !["monthlyContract"] = NumV(Q(8338, 10000)), !["automationLevel"] = NumV(Num(100)),
        !["laborReduction"] = NumV(Num(50)),
        !["annualLaborIncrease"] = NumV(Zero), !["annualFuelIncrease"] = NumV(Zero)]

\* the crew of SmallInput with 0.06 of a full-time employee on mowing
PartTimeInput == With(SmallInput, "employees", NumV(Q(6, 100)))

BaseScenarios == {ExampleInput, InhouseInput, OutsourcedInput, SmallInput, CentsInput,
                  SubCentInput, PartTimeInput,
                  With(SmallInput, "seasonWeeks", NumV(Num(4)))}

\* each base scenario, with the automation goals, the leasing flag and the
\* maintenance type varied
ScenariosOf(b) ==
    {[b EXCEPT !["automationLevel"] = a, !["laborReduction"] = l, !["isLeased"] = s] :
        a \in {b["automationLevel"], NumV(Num(100)), NumV(Num(10)), NumV(NaN)},
        l \in {b["laborReduction"], NumV(Num(50)), NumV(NaN)},
        s \in {Undef, BoolV(TRUE)}}

Scenarios == UNION {ScenariosOf(b) : b \in BaseScenarios}

\* what a caller may pass as <<totalInvestment, annualServiceCost>>; the pair with
\* cents is the recommendation for the worked example (two 550 EPOS units)
InvestmentArgs ==
    {<<Undef, Undef>>, <<NumV(Zero), NumV(Zero)>>, <<NumV(Zero), NumV(Num(600))>>,
     <<NumV(Num(-100)), NumV(Num(-50))>>, <<NumV(NaN), NumV(Num(600))>>,
     <<NumV(Num(10000)), NumV(Num(600))>>, <<NumV(Num(30000)), NumV(Num(600))>>,
     <<NumV(Num(10000)), StrV("abc")>>, <<NumV(D2(1640395)), NumV(D2(89297))>>,
     <<NumV(Num(1000)), NumV(Num(500))>>}

CalculateROI ==
    /\ result' = calculateROI(raw)
    /\ ret' = NoValue
    /\ UNCHANGED <<raw, resolved, invest, equipVars, uiVars, leadVars>>

\* result.withInvestment(totalInvestment, annualServiceCost)
WithInvestment ==
    /\ result # NoValue
    /\ ret' = [op |-> "withInvestment", value |-> withInvestment(result, invest[1], invest[2])]
    /\ UNCHANGED <<raw, resolved, result, invest, equipVars, uiVars, leadVars>>

\* Calculator.calculateProjection(result, totalInvestment, annualServiceCost)
CalculateProjection ==
    /\ result # NoValue
    /\ ret' = [op |-> "calculateProjection",
               value |-> calculateProjection(result, invest[1], invest[2])]
    /\ UNCHANGED <<raw, resolved, result, invest, equipVars, uiVars, leadVars>>

-----------------------------------------------------------------------------
(* Equipment: init, its fetch of /data/equipment.json, and the callers of recommend *)

-----------------------------------------------------------------------------
(* Presentation of the investment metrics *)

\* a piece of text on the page: the literal "N/A", or what JavaScript prints for a
\* number ("NaN", "Infinity", "-Infinity", or its digits)
NotAvailable == [kind |-> "N/A", n |-> Zero]

\* String(x), as in `x + '%'`
numberText(x) ==
    CASE IsNaN(x)    -> [kind |-> "NaN", n |-> Zero]
      [] x = PosInf  -> [kind |-> "Infinity", n |-> Zero]
      [] x = NegInf  -> [kind |-> "-Infinity", n |-> Zero]
      [] OTHER       -> [kind |-> "number", n |-> x]

\* x.toFixed(digits): the digits of x to that many places; NaN and the infinities print
\* as they are
toFixed(x, digits) == numberText(roundTo(x, digits))

\* renderHeroMetrics: the payback and roi cards
renderHeroMetrics(m) ==
    [payback |-> IF m.paybackYears = PosInf THEN NotAvailable ELSE toFixed(m.paybackYears, 1),
     roi     |-> IF m.roi = PosInf THEN NotAvailable ELSE numberText(MathRound(m.roi))]

\* renderMethodology: the ROI and payback lines of #methodology-roi
renderMethodology(m) ==
    [payback |-> toFixed(m.paybackYears, 1),
     roi     |-> numberText(MathRound(m.roi))]

\* setLeadCaptureData: the hidden fields lead-payback-period and lead-roi, and the
\* paybackPeriod and roi handed to LeadCapture.setCalculatorData
setLeadCaptureData(m) ==
    [payback |-> toFixed(m.paybackYears, 1),
     roi     |-> numberText(MathRound(m.roi))]

\* buildExecutiveSummary: the payback and roi cards of the PDF
buildExecutiveSummary(m) ==
    [payback |-> IF m.paybackYears = PosInf THEN NotAvailable ELSE toFixed(m.paybackYears, 1),
     roi     |-> IF m.roi = PosInf THEN NotAvailable ELSE toFixed(m.roi, 0)]

\* the render calls that end runCalculation, for the investmentMetrics just computed
RenderResults ==
    /\ ret # NoValue
    /\ ret.op = "withInvestment"
    /\ shown' = [metrics     |-> ret.value,
                 hero        |-> renderHeroMetrics(ret.value),
                 methodology |-> renderMethodology(ret.value),
                 lead        |-> setLeadCaptureData(ret.value),
                 pdf         |-> NoValue]
    /\ UNCHANGED <<calcVars, equipVars, leadVars, currentStep, maxCompletedStep, form, lastGo, progressDisabled, ranOn>>

\* the download button: the PDF is built from the investmentMetrics on the page
GeneratePdf ==
    /\ shown # NoValue
    /\ shown.pdf = NoValue
    /\ shown' = [shown EXCEPT !.pdf = buildExecutiveSummary(shown.metrics)]
    /\ UNCHANGED <<calcVars, equipVars, leadVars, currentStep, maxCompletedStep, form, lastGo, progressDisabled, ranOn>>

-----------------------------------------------------------------------------
(* The wizard: the form fields validateStep reads *)

\* the form before the visitor has typed anything; the maintenance select starts on
\* its first option
EmptyForm ==
    [propertyType |-> "", totalAcreage |-> "", maintenanceType |-> "in-house",
     employeeCount |-> "", hourlyRate |-> "", contractCost |-> ""]

\* what a visitor may put into each field
FormChoices ==
    [propertyType |-> {"", "golf"}, totalAcreage |-> {"", "0", "5"},
     maintenanceType |-> {"in-house", "outsourced"}, employeeCount |-> {"", "2"},
     hourlyRate |-> {"5", "25"}, contractCost |-> {"", "1000"}]

\* the wizard step on which a field can be edited
StepOfField ==
    [propertyType |-> 1, totalAcreage |-> 1, maintenanceType |-> 2, employeeCount |-> 2,
     hourlyRate |-> 2, contractCost |-> 2]

\* parseFloat / parseInt(., 10) of a field value; Number(.) differs on '' only
parseFloat(t) ==
    CASE t = ""     -> NaN
      [] t = "0"    -> Zero
      [] t = "2"    -> Num(2)
      [] t = "5"    -> Num(5)
      [] t = "25"   -> Num(25)
      [] t = "1000" -> Num(1000)

FieldNumber(t) == IF t = "" THEN Zero ELSE parseFloat(t)

\* validateStep(step): steps 1 and 2 test their fields, the others always pass
validateStep(step, f) ==
    CASE step = 1 ->
            /\ f.propertyType # ""
            /\ ~(f.totalAcreage = "" \/ Leq(FieldNumber(f.totalAcreage), Zero))
      [] step = 2 ->
            IF f.maintenanceType = "in-house"
            THEN /\ ~(f.employeeCount = "" \/ Lt(FieldNumber(f.employeeCount), One))
                 /\ ~(f.hourlyRate = "" \/ Lt(FieldNumber(f.hourlyRate), Num(10)))
            ELSE ~(f.contractCost = "" \/ Leq(FieldNumber(f.contractCost), Zero))
      [] OTHER -> TRUE

goToStep_noRangeCheck(step, cur, maxDone, f) ==
    IF step > maxDone + 1 /\ step > cur + 1 THEN <<cur, maxDone>>
    ELSE IF step > cur /\ ~validateStep(cur, f) THEN <<cur, maxDone>>
    ELSE <<step, IF step > cur /\ cur > maxDone THEN cur ELSE maxDone>>

goToStep_noValidation(step, cur, maxDone, f) ==
    IF step < 1 \/ step > 4 THEN <<cur, maxDone>>
    ELSE IF step > maxDone + 1 /\ step > cur + 1 THEN <<cur, maxDone>>
    ELSE <<step, IF step > cur /\ cur > maxDone THEN cur ELSE maxDone>>

\* goToStep(step) with currentStep = cur, maxCompletedStep = maxDone and the form f:
\* the new <<currentStep, maxCompletedStep>>
goToStep(step, cur, maxDone, f) ==
    IF step < 1 \/ step > 4 THEN <<cur, maxDone>>
    ELSE IF step > maxDone + 1 /\ step > cur + 1 THEN <<cur, maxDone>>
    ELSE IF step > cur /\ ~validateStep(cur, f) THEN <<cur, maxDone>>
    ELSE <<step, IF step > cur /\ cur > maxDone THEN cur ELSE maxDone>>

\* goToStep(step) takes one of its three early returns
goToStepReturns(step, cur, maxDone, f) ==
    \/ step < 1 \/ step > 4
    \/ step > maxDone + 1 /\ step > cur + 1
    \/ step > cur /\ ~validateStep(cur, f)

\* the progress-bar loop of goToStep: a button is enabled when its step is before the
\* new step or completed, disabled when it is more than one past the completed steps,
\* and left alone otherwise; nothing changes on an early return
progressAfter(step, cur, maxDone, f, disabled) ==
    IF goToStepReturns(step, cur, maxDone, f) THEN disabled
    ELSE [n \in 1..4 |->
            IF n < step \/ n <= goToStep(step, cur, maxDone, f)[2] THEN FALSE
            ELSE IF n > goToStep(step, cur, maxDone, f)[2] + 1 THEN TRUE
            ELSE disabled[n]]

\* the steps the buttons ask for (data-next, data-prev, data-step), and one below and
\* one above the wizard's four
StepArgs == 0..5

\* a click that ends in goToStep(step)
GoToStep(step) ==
    LET next == goToStep(step, currentStep, maxCompletedStep, form)
    IN  /\ currentStep' = next[1]
        /\ maxCompletedStep' = next[2]
        /\ lastGo' = [step |-> step, from |-> currentStep, maxDone |-> maxCompletedStep,
                      valid |-> validateStep(currentStep, form)]
        /\ progressDisabled' =
               progressAfter(step, currentStep, maxCompletedStep, form, progressDisabled)
        /\ UNCHANGED <<calcVars, equipVars, leadVars, shown, form, ranOn>>

\* the visitor changes a field of the step on screen
EditField(f, v) ==
    /\ StepOfField[f] = currentStep
    /\ form[f] # v
    /\ form' = [form EXCEPT ![f] = v]
    /\ UNCHANGED <<calcVars, equipVars, leadVars, shown, currentStep, maxCompletedStep, lastGo,
                 progressDisabled, ranOn>>

\* the Next button of steps 1 and 2 (data-next is the following step)
ClickNext ==
    /\ currentStep \in {1, 2}
    /\ GoToStep(currentStep + 1)

\* the Back button of steps 2, 3 and 4 (data-prev is the preceding step)
ClickBack ==
    /\ currentStep \in {2, 3, 4}
    /\ GoToStep(currentStep - 1)

\* a click on the progress-bar button of step n; a disabled button gives no click
ClickProgress(n) ==
    /\ ~progressDisabled[n]
    /\ GoToStep(n)

\* the positions the model gives the automation-level slider of step 3
SliderChoices == {Num(10), Num(50), Num(100)}

\* the controls the model does not follow one by one, as the page loads them; the
\* automation-level slider at 50
ControlDefaults == [InhouseInput EXCEPT !["automationLevel"] = NumV(Num(50))]

\* the visitor moves the automation-level slider
MoveSlider(v) ==
    /\ currentStep = 3
    /\ raw["automationLevel"] # NumV(v)
    /\ raw' = [raw EXCEPT !["automationLevel"] = NumV(v)]
    /\ UNCHANGED <<resolved, result, invest, ret, equipVars, uiVars, leadVars>>

\* gatherInputs(): the fields of the form; the controls the model does not follow
\* (sliders, check box, the other number fields) have the values of raw
gatherInputs(f, others) ==
    [others EXCEPT
        !["propertyType"]    = StrV(f.propertyType),
        !["acreage"]         = NumV(OrElse(parseFloat(f.totalAcreage), Zero)),
        !["maintenanceType"] = StrV(IF f.maintenanceType = "outsourced"
                                    THEN "outsourced" ELSE "inhouse"),
        !["employees"]       = NumV(OrElse(parseFloat(f.employeeCount), Zero)),
        !["hourlyRate"]      = NumV(OrElse(parseFloat(f.hourlyRate), Zero)),
        !["monthlyContract"] = NumV(OrElse(parseFloat(f.contractCost), Zero))]

recommendCall_fullAutomation(inputs) ==
    <<inputs.propertyType, inputs.acreage, NumV(Num(100)),
      BoolV(inputs.propertyType = StrV("golf"))>>

\* the call Equipment.recommend(...) of runCalculation; golf counts as hilly
recommendCall(inputs) ==
    <<inputs.propertyType, inputs.acreage, inputs.automationLevel,
      BoolV(inputs.propertyType = StrV("golf"))>>

\* the render calls of runCalculation that show payback and ROI
renderAll(m) ==
    [metrics     |-> m,
     hero        |-> renderHeroMetrics(m),
     methodology |-> renderMethodology(m),
     lead        |-> setLeadCaptureData(m),
     pdf         |-> NoValue]

\* the Calculate button of step 3: validateStep(3), then runCalculation
Calculate ==
    /\ currentStep = 3
    /\ validateStep(3, form)
    /\ result' = calculateROI(gatherInputs(form, raw))
    /\ _data' = IF _data = NoValue THEN FALLBACK_DATA ELSE _data
    /\ args' = recommendCall(gatherInputs(form, raw))
    /\ rec' = recommendEquipment(_data', args'[1], args'[2], args'[3], args'[4])
    /\ recFirst' = IF recFirst = NoValue THEN rec' ELSE recFirst
    /\ recData' = _data'
    /\ ranOn' = [step1 |-> validateStep(1, form), step2 |-> validateStep(2, form)]
    /\ IF rec' = Threw
       THEN UNCHANGED <<invest, ret, shown, currentStep, maxCompletedStep, form, lastGo,
                        progressDisabled>>
       ELSE /\ invest' = <<NumV(rec'.costs.totalInvestment), NumV(rec'.costs.annualService)>>
            /\ ret' = [op |-> "calculateProjection",
                       value |-> calculateProjection(result', invest'[1], invest'[2])]
            /\ shown' = renderAll(withInvestment(result', invest'[1], invest'[2]))
            /\ currentStep' = goToStep(4, currentStep, 3, form)[1]
            /\ maxCompletedStep' = goToStep(4, currentStep, 3, form)[2]
            /\ lastGo' = [step |-> 4, from |-> currentStep, maxDone |-> 3,
                          valid |-> validateStep(currentStep, form)]
            /\ progressDisabled' = progressAfter(4, currentStep, 3, form, progressDisabled)
            /\ UNCHANGED form
    /\ UNCHANGED <<raw, resolved, _initialized, fetch, catalogArrived, leadVars>>

-----------------------------------------------------------------------------
(* The lead endpoint (src/unnamed/part_000) *)

\* A text is the sequence of its characters.  A JSON value of a request body is a
\* record: k is its kind, c the text String(value) gives, truthy its truthiness.
Absent       == [k |-> "undefined", c |-> <<>>, truthy |-> FALSE]
JsonNullV    == [k |-> "null", c |-> <<"n", "u", "l", "l">>, truthy |-> FALSE]
JsonText(c)  == [k |-> "string", c |-> c, truthy |-> c # <<>>]
JsonZero     == [k |-> "number", c |-> <<"0">>, truthy |-> FALSE]
JsonSeven    == [k |-> "number", c |-> <<"7">>, truthy |-> TRUE]
JsonArray(c) == [k |-> "array", c |-> c, truthy |-> TRUE]

IsSpace(ch) == ch \in {" ", "\t", "\n"}

\* [^\s@]
Plain(ch) == ~IsSpace(ch) /\ ch # "@"

\* /^[^\s@]+@[^\s@]+\.[^\s@]+$/ .test(text)
emailRegexTest(c) ==
    \E at \in 2..Len(c) :
        /\ c[at] = "@"
        /\ \A j \in 1..(at - 1) : Plain(c[j])
        /\ \A j \in (at + 1)..Len(c) : Plain(c[j])
        /\ \E dot \in (at + 2)..(Len(c) - 1) : c[dot] = "."

corsHeaders ==
    {"Access-Control-Allow-Origin", "Access-Control-Allow-Methods",
     "Access-Control-Allow-Headers"}

Response_noCors(status, body) ==
    [status |-> status, body |-> body, headers |-> {"Content-Type"}]

\* new Response(JSON.stringify(body), {status, headers: {'Content-Type', ...corsHeaders}})
Response(status, body) ==
    [status |-> status, body |-> body, headers |-> {"Content-Type"} \cup corsHeaders]

Idle == [pc |-> "idle", req |-> NoValue, calls |-> 0, resp |-> NoValue]

\* the texts the model puts into name and email
NameValues ==
    {Absent, JsonNullV, JsonText(<<>>), JsonText(<<"A", "n", "n">>), JsonZero, JsonSeven}

EmailTexts ==
    {<<>>, <<"a", "@", "b", ".", "c">>, <<"a", ".", "b", "@", "c", ".", "d", ".", "e">>,
     <<"a", "@", "b">>, <<"a", " ", "@", "b", ".", "c">>, <<"a", "@", "@", "b", ".", "c">>,
     <<"@", "b", ".", "c">>, <<"a", "@", ".", "c">>, <<"a", "@", "b", ".">>,
     <<"a", "b", ".", "c">>}

EmailValues ==
    {Absent, JsonNullV, JsonSeven, JsonArray(<<"a", "@", "b", ".", "c">>)}
        \cup {JsonText(c) : c \in EmailTexts}

\* a request: its body is no JSON, the JSON null, or an object with name and email
Requests ==
    {[body |-> "unparsable"], [body |-> "null"]}
        \cup {[body |-> "object", name |-> n, email |-> e] : n \in NameValues, e \in EmailValues}

\* what the email API call can do: reject, answer OK, answer not-OK (and then its
\* text() resolves or rejects)
ResendOutcomes == {"rejected", "ok", "notOk", "notOkTextRejected"}

\* onRequestPost(context), up to its first await
OnRequestPost(req) ==
    /\ srv.pc \in {"idle", "done"}
    /\ srv' = [pc |-> "json", req |-> req, calls |-> 0, resp |-> NoValue]
    /\ UNCHANGED <<calcVars, equipVars, uiVars, lead>>

validRequest_nameOnly(req) ==
    /\ req.body = "object"
    /\ req.name.truthy

\* the request passes both tests of lines 14 and 22
validRequest(req) ==
    /\ req.body = "object"
    /\ req.name.truthy
    /\ req.email.truthy
    /\ emailRegexTest(req.email.c)

\* request.json() settles: the handler runs up to the fetch of the email API, or answers
JsonSettles ==
    /\ srv.pc = "json"
    /\ srv' = CASE srv.req.body = "unparsable" ->
                     [srv EXCEPT !.pc = "done",
                                 !.resp = Response(500, "Internal server error")]
                [] srv.req.body = "null" ->
                     [srv EXCEPT !.pc = "done",
                                 !.resp = Response(500, "Internal server error")]
                [] srv.req.body = "object" /\ ~(srv.req.name.truthy /\ srv.req.email.truthy) ->
                     [srv EXCEPT !.pc = "done",
                                 !.resp = Response(400, "Name and email are required")]
                [] OTHER ->
                     IF validRequest(srv.req)
                     THEN [srv EXCEPT !.pc = "fetch", !.calls = srv.calls + 1]
                     ELSE [srv EXCEPT !.pc = "done",
                                      !.resp = Response(400, "Invalid email address")]
    /\ UNCHANGED <<calcVars, equipVars, uiVars, lead>>

\* the email API call settles and the handler answers
ResendSettles(outcome) ==
    /\ srv.pc = "fetch"
    /\ srv' = [srv EXCEPT
                  !.pc = "done",
                  !.resp = CASE outcome = "ok"    -> Response(200, "success")
                             [] outcome = "notOk" -> Response(500, "Failed to send email")
                             [] OTHER             -> Response(500, "Internal server error")]
    /\ UNCHANGED <<calcVars, equipVars, uiVars, lead>>

-----------------------------------------------------------------------------
(* The lead form (LeadCapture, src/unnamed/part_001) *)

\* String.prototype.trim
RECURSIVE trimStart(_)
trimStart(c) == IF c # <<>> /\ IsSpace(Head(c)) THEN trimStart(Tail(c)) ELSE c

RECURSIVE trimEnd(_)
trimEnd(c) == IF c # <<>> /\ IsSpace(c[Len(c)]) THEN trimEnd(SubSeq(c, 1, Len(c) - 1)) ELSE c

trim(c) == trimEnd(trimStart(c))

\* validate(fields): the error message, or NoValue for null
validate(fields) ==
    IF fields.name = <<>> \/ trim(fields.name) = <<>>
    THEN [message |-> "Please enter your name."]
    ELSE IF fields.email = <<>> \/ trim(fields.email) = <<>>
         THEN [message |-> "Please enter your email address."]
    ELSE IF ~emailRegexTest(trim(fields.email))
         THEN [message |-> "Please enter a valid email address."]
    ELSE NoValue

\* what the visitor may type into the two required fields
LeadChoices ==
    [name  |-> {<<>>, <<" ">>, <<"A">>},
     email |-> {<<>>, <<"a", "@", "b">>, <<" ", "a", "@", "b", ".", "c", " ">>}]

\* largest number of lead requests in flight
MaxInFlight == 3

\* the form as the markup leaves it: no submit listener yet
LeadForm ==
    [inits     |-> {},
     name      |-> <<>>,
     email     |-> <<>>,
     disabled  |-> FALSE,
     label     |-> "original",
     displayed |-> TRUE,
     status    |-> [hidden |-> TRUE, class |-> "", text |-> ""],
     inflight  |-> 0,
     event     |-> NoValue]

\* LeadCapture.init(): called by the module itself when the DOM is ready ("auto") and
\* by the init of app.js when LeadCapture is defined ("app"); each call adds a submit
\* listener to the form
LeadCaptureInit(caller) ==
    /\ lead # NoValue
    /\ caller \notin lead.inits
    /\ lead' = [lead EXCEPT !.inits = lead.inits \cup {caller}]
    /\ UNCHANGED <<calcVars, equipVars, uiVars, srv>>

\* the visitor types into a field of the form
EditLead(f, c) ==
    /\ lead # NoValue
    /\ lead.displayed
    /\ lead[f] # c
    /\ lead' = [lead EXCEPT ![f] = c, !.event = [kind |-> "edit"]]
    /\ UNCHANGED <<calcVars, equipVars, uiVars, srv>>

\* one submit listener, run on the form l
submitListener(l) ==
    IF validate(l) # NoValue
    THEN [l EXCEPT !.status = [hidden |-> FALSE, class |-> "form-error",
                           text |-> validate(l).message]]
    ELSE [l EXCEPT !.status.hidden = TRUE,
                   !.disabled = TRUE,
                   !.label = "Sending...",
                   !.inflight = l.inflight + 1]

RECURSIVE submitListeners(_, _)
submitListeners(l, n) == IF n = 0 THEN l ELSE submitListeners(submitListener(l), n - 1)

\* a submit event of the form (the button pressed, or Enter in a field): every listener
\* runs; a hidden form or a disabled button gives no event
Submit ==
    /\ lead # NoValue
    /\ lead.inits # {}
    /\ lead.displayed
    /\ ~lead.disabled
    /\ lead.inflight + Cardinality(lead.inits) <= MaxInFlight
    /\ lead' = [submitListeners(lead, Cardinality(lead.inits)) EXCEPT
                   !.event = [kind  |-> "submit",
                              valid |-> validate(lead) = NoValue,
                              sent  |-> submitListeners(lead, Cardinality(lead.inits)).inflight
                                            - lead.inflight]]
    /\ UNCHANGED <<calcVars, equipVars, uiVars, srv>>

\* how a lead request can end: an OK answer, a not-OK answer, a rejected fetch, an OK
\* answer whose body is no JSON
LeadOutcomes == {"ok", "notOk", "rejected", "badJson"}

\* the promise of one request in flight settles
ResponseArrives(outcome) ==
    /\ lead # NoValue
    /\ lead.inflight > 0
    /\ lead' = IF outcome = "ok"
               THEN [lead EXCEPT
                        !.name = <<>>, !.email = <<>>,
                        !.displayed = FALSE,
                        !.status = [hidden |-> FALSE, class |-> "form-success",
                                    text |-> "Thank you! Chuck will be in touch within 24 hours."],
                        !.inflight = lead.inflight - 1,
                        !.event = [kind |-> "response", ok |-> TRUE]]
               ELSE [lead EXCEPT
                        !.status = [hidden |-> FALSE, class |-> "form-error",
                                    text |-> "Something went wrong. Please try again or call us directly."],
                        !.disabled = FALSE,
                        !.label = "original",
                        !.inflight = lead.inflight - 1,
                        !.event = [kind |-> "response", ok |-> FALSE]]
    /\ UNCHANGED <<calcVars, equipVars, uiVars, srv>>

\* what startOver does to the lead form: text fields back to their defaults, the status
\* line hidden, the form shown
startOverLead(l) ==
    IF l = NoValue THEN l
    ELSE [l EXCEPT !.name = <<>>, !.email = <<>>, !.status.hidden = TRUE,
                   !.displayed = TRUE, !.event = [kind |-> "startOver"]]

\* the Start Over button (startOver of app.js): the wizard, the results and the forms
StartOver ==
    LET next == goToStep(1, 1, 0, EmptyForm)
    IN  /\ result' = NoValue
        /\ rec' = NoValue
        /\ ret' = NoValue
        /\ form' = EmptyForm
        /\ currentStep' = next[1]
        /\ maxCompletedStep' = next[2]
        /\ lastGo' = [step |-> 1, from |-> 1, maxDone |-> 0,
                      valid |-> validateStep(1, EmptyForm)]
        /\ shown' = IF shown = NoValue THEN shown ELSE [shown EXCEPT !.metrics = NoValue]
        /\ progressDisabled' = progressAfter(1, 1, 0, EmptyForm, progressDisabled)
        /\ lead' = startOverLead(lead)
        /\ raw' = [raw EXCEPT !["automationLevel"] = ControlDefaults["automationLevel"]]
        /\ UNCHANGED <<resolved, invest, _data, _initialized, fetch, args,
                       recFirst, recData, catalogArrived, ranOn, srv>>

-----------------------------------------------------------------------------
(* Equipment: init, the fetch and recommend *)

\* largest number of catalog fetches in flight (init called again before one settles)
MaxPending == 2

\* a catalog file with other prices and a wider 550 EPOS
JsonCatalog ==
    Catalog(<<Model("520 EPOS", D2(349999), Q(5, 4)),
              Model("520H EPOS", D2(359999), Q(5, 4)),
              Model("550 EPOS", D2(599999), Num(3)),
              Model("550H EPOS", D2(549999), Num(3))>>,
            [referenceStation |-> D2(99999), housing |-> D2(19999)],
            [annualMaintenance |-> Num(299), remoteSupport |-> D2(9999),
             winterStorage |-> D2(15999)],
            [perUnit |-> Num(1600), flat |-> Num(550)])

\* a catalog file that lists another product line only
JsonOtherModels ==
    [JsonCatalog EXCEPT !.models = <<Model("430X", D2(249999), One)>>]

\* a catalog file with models but none of the price tables
JsonModelsOnly ==
    [JsonCatalog EXCEPT !.accessories = NoValue, !.services = NoValue,
                        !.installation = NoValue]

\* bodies without a usable models array: null, {}, { models: [] }
JsonNull        == [JsonModelsOnly EXCEPT !.truthy = FALSE, !.modelsIsArray = FALSE, !.models = <<>>]
JsonEmptyObject == [JsonModelsOnly EXCEPT !.modelsIsArray = FALSE, !.models = <<>>]
JsonNoModels    == [JsonCatalog EXCEPT !.models = <<>>]

JsonBodies == {JsonCatalog, JsonOtherModels, JsonModelsOnly, JsonNull, JsonEmptyObject,
               JsonNoModels}

\* how a fetch can end: the promise rejects (network error, body that is not JSON),
\* the response is not OK, or the response is OK with a parsed body
FetchOutcomes ==
    {[kind |-> "rejected", body |-> JsonNull], [kind |-> "notOk", body |-> JsonNull]}
    \cup {[kind |-> "ok", body |-> b] : b \in JsonBodies}

validCatalog_anyObject(json) == json.truthy

\* the shape test of init: json && Array.isArray(json.models) && json.models.length > 0
validCatalog(json) == json.truthy /\ json.modelsIsArray /\ Len(json.models) > 0

\* Equipment.init(): nothing to do once initialized, else one more fetch in flight
EquipmentInit ==
    /\ ~_initialized
    /\ fetch < MaxPending
    /\ fetch' = fetch + 1
    /\ UNCHANGED <<calcVars, uiVars, leadVars, _data, _initialized, args, rec, recFirst, recData, catalogArrived>>

\* Equipment.init() after initialization: returns a resolved promise
EquipmentInitAgain ==
    /\ _initialized
    /\ UNCHANGED vars

\* a fetch settles and the .then / .catch handlers of init run
FetchSettles(outcome) ==
    /\ fetch > 0
    /\ fetch' = fetch - 1
    /\ _data' = IF outcome.kind = "ok" /\ validCatalog(outcome.body)
                THEN outcome.body ELSE FALLBACK_DATA
    /\ _initialized' = TRUE
    /\ catalogArrived' = (catalogArrived \/ (outcome.kind = "ok" /\ outcome.body.truthy
                                             /\ outcome.body.modelsIsArray
                                             /\ Len(outcome.body.models) > 0))
    /\ UNCHANGED <<calcVars, uiVars, leadVars, args, rec, recFirst, recData>>

\* Equipment.recommend(propertyType, acreage, automationLevel, isHilly)
Recommend ==
    LET data  == IF _data = NoValue THEN FALLBACK_DATA ELSE _data
        value == recommendEquipment(data, args[1], args[2], args[3], args[4])
    IN  /\ _data' = data
        /\ rec' = value
        /\ recFirst' = IF recFirst = NoValue THEN value ELSE recFirst
        /\ recData' = data
        /\ UNCHANGED <<calcVars, uiVars, leadVars, _initialized, fetch, args, catalogArrived>>

\* the arguments a caller passes to recommend
RecommendArgs ==
    {StrV("commercial"), StrV("golf"), StrV("athletic"), StrV(""), StrV("Golf")}
    \X {NumV(Zero), NumV(Num(2)), NumV(Num(4)), NumV(Num(10)), NumV(Num(-3)), NumV(NaN),
        NumV(Q(5, 2))}
    \X {NumV(Num(50)), NumV(Num(100)), NumV(Num(150)), NumV(Zero), Undef}
    \X {BoolV(TRUE), BoolV(FALSE)}

-----------------------------------------------------------------------------
(* Specifications *)

\* the wizard: the buttons, the form and the calculation behind step 4
InitWizard ==
    /\ raw = ControlDefaults
    /\ resolved = NoValue
    /\ result = NoValue
    /\ invest = <<Undef, Undef>>
    /\ ret = NoValue
    /\ args = <<StrV("commercial"), NumV(Num(10)), NumV(Num(50)), BoolV(FALSE)>>
    /\ _data = NoValue
    /\ _initialized = FALSE
    /\ fetch = 0
    /\ rec = NoValue
    /\ recFirst = NoValue
    /\ recData = NoValue
    /\ catalogArrived = FALSE
    /\ shown = NoValue
    /\ currentStep = 1
    /\ maxCompletedStep = 0
    /\ form = EmptyForm
    /\ lastGo = NoValue
    /\ progressDisabled = [n \in 1..4 |-> n > 1]
    /\ ranOn = NoValue
    /\ lead = NoValue
    /\ srv = Idle

\* the wizard as its buttons drive it
NextClicks ==
    \/ ClickNext
    \/ ClickBack
    \/ \E n \in 1..4 : ClickProgress(n)
    \/ \E f \in DOMAIN FormChoices : \E v \in FormChoices[f] : EditField(f, v)
    \/ Calculate
    \/ StartOver

NextWizard ==
    \/ \E step \in StepArgs : GoToStep(step)
    \/ \E f \in DOMAIN FormChoices : \E v \in FormChoices[f] : EditField(f, v)
    \/ Calculate
    \/ StartOver

SpecWizard == InitWizard /\ [][NextWizard]_vars

SpecClicks == InitWizard /\ [][NextClicks]_vars

\* every form that passes steps 1 and 2
ValidForms ==
    {f \in [propertyType : FormChoices.propertyType, totalAcreage : FormChoices.totalAcreage,
            maintenanceType : FormChoices.maintenanceType,
            employeeCount : FormChoices.employeeCount \cup {""},
            hourlyRate : FormChoices.hourlyRate \cup {""},
            contractCost : FormChoices.contractCost] :
        validateStep(1, f) /\ validateStep(2, f)}

\* the calculation of step 3: the wizard has come to step 3 by two Next clicks on a
\* valid form, the automation-level slider anywhere
InitRun ==
    /\ raw \in {[ControlDefaults EXCEPT !["automationLevel"] = NumV(v)] : v \in SliderChoices}
    /\ resolved = NoValue
    /\ result = NoValue
    /\ invest = <<Undef, Undef>>
    /\ ret = NoValue
    /\ args = <<StrV("commercial"), NumV(Num(10)), NumV(Num(50)), BoolV(FALSE)>>
    /\ _data = NoValue
    /\ _initialized = FALSE
    /\ fetch = 0
    /\ rec = NoValue
    /\ recFirst = NoValue
    /\ recData = NoValue
    /\ catalogArrived = FALSE
    /\ shown = NoValue
    /\ currentStep = 3
    /\ maxCompletedStep = 2
    /\ form \in ValidForms
    /\ lastGo = [step |-> 3, from |-> 2, maxDone |-> 1, valid |-> TRUE]
    /\ progressDisabled = [n \in 1..4 |-> n > 2]
    /\ ranOn = NoValue
    /\ lead = NoValue
    /\ srv = Idle

NextRun ==
    \/ \E v \in SliderChoices : MoveSlider(v)
    \/ Calculate
    \/ ClickBack
    \/ ClickNext
    \/ StartOver

SpecRun == InitRun /\ [][NextRun]_vars

EquipInit ==
    /\ _data = NoValue
    /\ _initialized = FALSE
    /\ fetch = 0
    /\ rec = NoValue
    /\ recFirst = NoValue
    /\ recData = NoValue
    /\ catalogArrived = FALSE

\* the lead form before LeadCapture.init has run; the endpoint idle
LeadInit ==
    /\ lead = NoValue
    /\ srv = Idle

\* the page as loaded: step 1 on screen, nothing completed, the form as the markup
\* leaves it, nothing rendered
UiInit ==
    /\ shown = NoValue
    /\ currentStep = 1
    /\ maxCompletedStep = 0
    /\ form = EmptyForm
    /\ lastGo = NoValue
    /\ progressDisabled = [n \in 1..4 |-> n > 1]
    /\ ranOn = NoValue

\* resolveInputs on every input map with at most MaxFields fields set
InitResolve ==
    /\ raw = EmptyInput
    /\ resolved = NoValue
    /\ result = NoValue
    /\ invest = <<Undef, Undef>>
    /\ ret = NoValue
    /\ args = <<StrV("commercial"), NumV(Num(10)), NumV(Num(50)), BoolV(FALSE)>>
    /\ EquipInit
    /\ UiInit
    /\ LeadInit

NextResolve ==
    \/ \E f \in Fields : \E v \in RawChoices(f) : SetField(f, v)
    \/ \E f \in Fields : ClearField(f)
    \/ ResolveInputs

SpecResolve == InitResolve /\ [][NextResolve]_vars

\* calculateROI on a scenario, then withInvestment and calculateProjection on its result
InitCalc ==
    /\ raw \in Scenarios
    /\ resolved = NoValue
    /\ result = NoValue
    /\ invest \in InvestmentArgs
    /\ ret = NoValue
    /\ args = <<StrV("commercial"), NumV(Num(10)), NumV(Num(50)), BoolV(FALSE)>>
    /\ EquipInit
    /\ UiInit
    /\ LeadInit

NextCalc ==
    \/ CalculateROI
    \/ WithInvestment
    \/ CalculateProjection
    \/ RenderResults
    \/ GeneratePdf

SpecCalc == InitCalc /\ [][NextCalc]_vars

\* a caller of Equipment.recommend, around init and the settling of its fetches
InitEquip ==
    /\ raw = EmptyInput
    /\ resolved = NoValue
    /\ result = NoValue
    /\ invest = <<Undef, Undef>>
    /\ ret = NoValue
    /\ args \in RecommendArgs
    /\ EquipInit
    /\ UiInit
    /\ LeadInit

NextEquip ==
    \/ EquipmentInit
    \/ EquipmentInitAgain
    \/ \E outcome \in FetchOutcomes : FetchSettles(outcome)
    \/ Recommend

SpecEquip == InitEquip /\ [][NextEquip]_vars

-----------------------------------------------------------------------------
(* Properties of calculateROI, withInvestment and calculateProjection (SpecCalc) *)

HasResult == result # NoValue
Returned(op) == ret # NoValue /\ ret.op = op

\* C1: every ROIResult has currentCosts.total = round(labor + fuel + equipment),
\* savings.gross = round(labor + fuel + equipment savings), newCosts.total =
\* round(maintenance + electricity) and netAnnualSavings = round(gross - newCosts.total),
\* each rounded to two places.  (A NaN total equals the NaN sum it was computed from.)
ClaimC1_TotalsAreRoundedSums ==
    HasResult =>
        /\ result.currentCosts.total =
               roundTo(Add(Add(result.currentCosts.labor, result.currentCosts.fuel),
                           result.currentCosts.equipment), 2)
        /\ result.savings.gross =
               roundTo(Add(Add(result.savings.labor, result.savings.fuel),
                           result.savings.equipment), 2)
        /\ result.newCosts.total =
               roundTo(Add(result.newCosts.maintenance, result.newCosts.electricity), 2)
        /\ result.netAnnualSavings =
               roundTo(Sub(result.savings.gross, result.newCosts.total), 2)

\* an in-house result in which every summand is a positive amount
WitnessC1_AllSummandsPositive ==
    /\ HasResult
    /\ Gt(result.currentCosts.labor, Zero)
    /\ Gt(result.currentCosts.fuel, Zero)
    /\ Gt(result.currentCosts.equipment, Zero)
    /\ Gt(result.savings.equipment, Zero)
    /\ Gt(result.newCosts.electricity, Zero)
    /\ Gt(result.netAnnualSavings, Zero)

\* C2: when the resolved maintenanceType is outsourced, the fuel and equipment costs
\* and the fuel and equipment savings are all 0, whatever the acreage, fuel,
\* equipment and leasing inputs.
ClaimC2_OutsourcedHasNoFuelOrEquipment ==
    (HasResult /\ result.inputs.maintenanceType = "outsourced") =>
        /\ result.currentCosts.fuel = Zero
        /\ result.currentCosts.equipment = Zero
        /\ result.savings.fuel = Zero
        /\ result.savings.equipment = Zero

\* an outsourced result for leased equipment on a property with acreage and fuel prices
WitnessC2_OutsourcedLeasedWithAcreage ==
    /\ HasResult
    /\ result.inputs.maintenanceType = "outsourced"
    /\ result.inputs.isLeased
    /\ Gt(result.inputs.acreage, Zero)
    /\ Gt(result.inputs.fuelCostPerGallon, Zero)
    /\ Gt(result.inputs.baseEquipmentCost, Zero)
    /\ Gt(result.currentCosts.labor, Zero)

\* netAnnualSavings - annualServiceCost of the last withInvestment call
EffectiveSavings == Sub(result.netAnnualSavings, ret.value.annualServiceCost)

NoPayback ==
    /\ Returned("withInvestment")
    /\ Leq(EffectiveSavings, Zero)
    /\ Gt(ret.value.totalInvestment, Zero)

\* C3 as stated: with effectiveSavings <= 0 and totalInvestment > 0, paybackYears and
\* paybackMonths are +Infinity and roi is exactly effectiveSavings / totalInvestment * 100.
ClaimC3_RoiIsExactRatio ==
    NoPayback =>
        /\ ret.value.paybackYears = PosInf
        /\ ret.value.paybackMonths = PosInf
        /\ ret.value.roi = Mul(Div(EffectiveSavings, ret.value.totalInvestment), Num(100))
        /\ Leq(ret.value.roi, Zero)

\* C3 amended: with effectiveSavings <= 0 and totalInvestment > 0, paybackYears and
\* paybackMonths are +Infinity and roi is effectiveSavings / totalInvestment * 100
\* rounded to two places, which is <= 0.
ClaimC3_RoiIsRoundedRatio ==
    NoPayback =>
        /\ ret.value.paybackYears = PosInf
        /\ ret.value.paybackMonths = PosInf
        /\ ret.value.roi =
               roundTo(Mul(Div(EffectiveSavings, ret.value.totalInvestment), Num(100)), 2)
        /\ Leq(ret.value.roi, Zero)

\* the example: netAnnualSavings 500, annualServiceCost 600, totalInvestment 10000
WitnessC3_MinusOnePercent ==
    /\ NoPayback
    /\ result.netAnnualSavings = Num(500)
    /\ ret.value.annualServiceCost = Num(600)
    /\ ret.value.totalInvestment = Num(10000)
    /\ ret.value.roi = Num(-1)
    /\ ret.value.paybackYears = PosInf

\* C4: with totalInvestment = 0, withInvestment returns paybackYears = paybackMonths = 0,
\* and roi = +Infinity if effectiveSavings > 0, else 0; the call returns (the division
\* by zero raises nothing).
ClaimC4_ZeroInvestment ==
    (Returned("withInvestment") /\ ret.value.totalInvestment = Zero) =>
        /\ ret.value.paybackYears = Zero
        /\ ret.value.paybackMonths = Zero
        /\ ret.value.roi = IF Gt(EffectiveSavings, Zero) THEN PosInf ELSE Zero

\* the example: totalInvestment 0, netAnnualSavings 1000, annualServiceCost 0
WitnessC4_InfiniteRoi ==
    /\ Returned("withInvestment")
    /\ ret.value.totalInvestment = Zero
    /\ ret.value.annualServiceCost = Zero
    /\ result.netAnnualSavings = Num(1000)
    /\ ret.value.roi = PosInf
    /\ ret.value.paybackYears = Zero

\* C6: in the year-5 entry of every projection, cumulativeSavings =
\* cumulativeTraditional - cumulativeAutomated and cumulativeAutomated >= totalInvestment.
ClaimC6_YearFiveCumulatives ==
    Returned("calculateProjection") =>
        LET last == ret.value[ProjectionYears]
        IN  /\ last.cumulativeSavings =
                   Sub(last.cumulativeTraditional, last.cumulativeAutomated)
            /\ Geq(last.cumulativeAutomated, NonNegativeOrZero(invest[1]))

-----------------------------------------------------------------------------
(* Properties of resolveInputs (SpecResolve) *)

\* the documented range of each numeric field: <<min, max>>, max +Infinity if none
DocumentedRange ==
    [acreage |-> <<Zero, PosInf>>, seasonWeeks |-> <<One, PosInf>>,
     employees |-> <<Zero, PosInf>>, hourlyRate |-> <<Zero, PosInf>>,
     mowingTimePercent |-> <<Zero, Num(100)>>, monthlyContract |-> <<Zero, PosInf>>,
     benefitsRate |-> <<Zero, Num(100)>>, fuelCostPerGallon |-> <<Zero, PosInf>>,
     laborReduction |-> <<Num(50), Num(95)>>, bufferTime |-> <<Num(5), Num(40)>>,
     annualLaborIncrease |-> <<Zero, Num(10)>>, fuelPerAcre |-> <<Zero, PosInf>>,
     annualFuelIncrease |-> <<Zero, Num(15)>>, baseEquipmentCost |-> <<Zero, PosInf>>,
     equipmentCostPerAcre |-> <<Zero, PosInf>>, maintenanceRate |-> <<Num(5), Num(25)>>,
     insuranceRate |-> <<One, Num(15)>>, leasingPremium |-> <<Zero, Num(20)>>,
     roboticMaintenance |-> <<Zero, PosInf>>, electricityPerAcre |-> <<Zero, PosInf>>,
     co2PerGallon |-> <<Zero, PosInf>>, mowingTimePerAcre |-> <<Zero, PosInf>>,
     automationLevel |-> <<Num(25), Num(100)>>, desiredMowingTime |-> <<Num(5), Num(60)>>]

NumericFields == DOMAIN DocumentedRange

\* C9: every numeric field of the record resolveInputs returns is finite and within
\* its documented range, whatever the raw field was (absent, NaN, non-numeric, or a
\* number below, inside or above the range); mowsPerWeek is a finite table value.
ClaimC9_ResolvedFieldsFiniteInRange ==
    resolved # NoValue =>
        /\ \A f \in NumericFields :
              /\ IsFinite(resolved[f])
              /\ Geq(resolved[f], DocumentedRange[f][1])
              /\ Leq(resolved[f], DocumentedRange[f][2])
        /\ IsFinite(resolved.mowsPerWeek)

RecognizedPropertyTypes == {StrV("commercial"), StrV("golf"), StrV("athletic")}

\* C10: the resolved propertyType is commercial, golf or athletic, an unrecognized or
\* missing raw value resolving to commercial; the resolved maintenanceType is
\* outsourced exactly when the raw value is the string 'outsourced', else inhouse.
ClaimC10_ResolvedCategories ==
    resolved # NoValue =>
        /\ resolved.propertyType \in RecognizedPropertyTypes
        /\ raw.propertyType \notin RecognizedPropertyTypes
              => resolved.propertyType = StrV("commercial")
        /\ resolved.maintenanceType =
              IF raw.maintenanceType = StrV("outsourced") THEN "outsourced" ELSE "inhouse"

-----------------------------------------------------------------------------
(* Properties of Equipment.recommend (SpecEquip) *)

HasRecommendation == rec # NoValue /\ rec # Threw

\* the sanitized arguments of section 4.5: acreage = max(0, .), automationLevel in [0, 100]
SanitizedAcreage == IF IsFinite(ToNumber(args[2])) THEN MathMax(Zero, ToNumber(args[2])) ELSE Zero
SanitizedLevel   == IF IsFinite(ToNumber(args[3]))
                    THEN MathMin(Num(100), MathMax(Zero, ToNumber(args[3]))) ELSE Zero

\* C5: every recommendation has unitsNeeded >= 1, also for acreage 0, with
\* unitsNeeded = max(1, ceil(targetAcreage / model.coverage)) and
\* targetAcreage = acreage * automationLevel / 100.
ClaimC5_UnitsNeeded ==
    HasRecommendation =>
        /\ Geq(rec.unitsNeeded, One)
        /\ rec.targetAcreage = Mul(SanitizedAcreage, Mul(SanitizedLevel, Q(1, 100)))
        /\ rec.unitsNeeded =
               LET units == MathCeil(Div(rec.targetAcreage, rec.model.coverage))
               IN  IF Lt(units, One) THEN One ELSE units

\* a recommendation for no acreage at all: one unit
WitnessC5_ZeroAcreage ==
    /\ HasRecommendation
    /\ ToNumber(args[2]) = Zero
    /\ rec.targetAcreage = Zero
    /\ rec.unitsNeeded = One

\* C8 as stated: called with the same arguments, recommend returns the same
\* recommendation however the calls interleave with init and the settling of its fetch.
ClaimC8_SameRecommendationAlways ==
    rec # NoValue => rec = recFirst

\* C8 amended: recommend reads the shared catalog _data (and sets it to the built-in
\* catalog when it is null); called with the same arguments it returns the same
\* recommendation before init, while a fetch is pending, and after fetches that
\* reject, answer not-OK or deliver a body without a non-empty models array.  Only once
\* a fetch has delivered a body with models can the result differ.
ClaimC8_SameRecommendationUntilCatalogArrives ==
    (rec # NoValue /\ ~catalogArrived) => rec = recFirst

\* a second call, after init settled on the built-in catalog and with one more fetch pending
WitnessC8_AfterFallbackInit ==
    /\ HasRecommendation
    /\ rec = recFirst
    /\ _initialized
    /\ _data = FALLBACK_DATA
    /\ ~catalogArrived
    /\ fetch > 0

-----------------------------------------------------------------------------
(* Totality of calculateROI (SpecCalc) *)

\* C11: calculateROI returns a complete ROIResult for every raw input: each resolved
\* input field is a default or a clamped value (finite, within its documented range)
\* and the costs, savings and net savings computed from them are numbers.
ClaimC11_EveryInputDegrades ==
    HasResult =>
        /\ \A f \in NumericFields :
              /\ IsFinite(result.inputs[f])
              /\ Geq(result.inputs[f], DocumentedRange[f][1])
              /\ Leq(result.inputs[f], DocumentedRange[f][2])
        /\ IsFinite(result.currentCosts.total)
        /\ IsFinite(result.savings.gross)
        /\ IsFinite(result.netAnnualSavings)

-----------------------------------------------------------------------------
(* The catalog in use and the recommendation built from it (SpecEquip) *)

\* a catalog with a non-empty models array and the three price tables
CompleteCatalog(c) ==
    /\ c.truthy /\ c.modelsIsArray /\ Len(c.models) > 0
    /\ c.accessories # NoValue /\ c.services # NoValue /\ c.installation # NoValue

\* C12: once init has settled, the catalog in use is the built-in one unless the fetch
\* delivered a complete catalog (models, accessories, services, installation), and no
\* Equipment.recommend call fails.
ClaimC12_FallbackUnlessComplete ==
    /\ _initialized => (_data = FALLBACK_DATA \/ CompleteCatalog(_data))
    /\ rec # Threw

\* the short name the selection table gives for the arguments of the call
TableShortName ==
    LET propertyType == IF args[1].s = "" THEN "commercial" ELSE toLowerCase(args[1].s)
        hilly        == propertyType = "golf" \/ args[4] = BoolV(TRUE)
        small        == Leq(rec.targetAcreage, Num(2))
    IN  CASE hilly /\ small   -> "520H EPOS"
          [] hilly /\ ~small  -> "550H EPOS"
          [] ~hilly /\ small  -> "520 EPOS"
          [] OTHER            -> "550 EPOS"

\* C13 as stated: the recommended model is always the one the table names.
ClaimC13_ModelIsTableModel ==
    HasRecommendation => rec.model.shortName = TableShortName

\* C13 amended: the recommended model is the catalog's model with the short name the
\* table gives; when the catalog in use lists no model of that name, it is the first
\* model of the catalog.
ClaimC13_TableModelOrFirstModel ==
    HasRecommendation =>
        LET named == {k \in 1..Len(recData.models) :
                         recData.models[k].shortName = TableShortName}
        IN  IF named = {} THEN rec.model = recData.models[1]
            ELSE /\ rec.model.shortName = TableShortName
                 /\ \E k \in named : rec.model = recData.models[k]

\* the example: commercial, 10 acres, 50% automation, not hilly, built-in catalog
WitnessC13_Commercial10Acres ==
    /\ HasRecommendation
    /\ args = <<StrV("commercial"), NumV(Num(10)), NumV(Num(50)), BoolV(FALSE)>>
    /\ recData = FALLBACK_DATA
    /\ rec.model.shortName = "550 EPOS"
    /\ rec.unitsNeeded = Num(2)

\* C14: the costs of a recommendation are mowers = unitsNeeded * model.price, one
\* reference station, housing = unitsNeeded * housing price, installation =
\* unitsNeeded * per-unit price, one flat setup charge, totalInvestment the sum of these
\* five, and annualService = unitsNeeded * annual maintenance + one remote support
\* + unitsNeeded * winter storage, at the prices of the catalog the call read.
ClaimC14_Pricing ==
    HasRecommendation =>
        LET n == rec.unitsNeeded
            c == rec.costs
        IN  /\ c.mowers = Mul(n, rec.model.price)
            /\ c.referenceStation = recData.accessories.referenceStation
            /\ c.housing = Mul(n, recData.accessories.housing)
            /\ c.installation = Mul(n, recData.installation.perUnit)
            /\ c.setup = recData.installation.flat
            /\ c.totalInvestment =
                   Add(Add(Add(Add(c.mowers, c.referenceStation), c.housing),
                           c.installation), c.setup)
            /\ c.annualService =
                   Add(Add(Mul(n, recData.services.annualMaintenance),
                           recData.services.remoteSupport),
                       Mul(n, recData.services.winterStorage))

\* two 550 EPOS at the built-in prices: 16403.95 to invest, 892.97 a year
WitnessC14_TwoUnits ==
    /\ HasRecommendation
    /\ recData = FALLBACK_DATA
    /\ rec.unitsNeeded = Num(2)
    /\ rec.costs.housing = D2(34398)
    /\ rec.costs.totalInvestment = D2(1640395)
    /\ rec.costs.annualService = D2(89297)

-----------------------------------------------------------------------------
(* withInvestment with a payback, and the projection table (SpecCalc) *)

Payback ==
    /\ Returned("withInvestment")
    /\ Gt(ret.value.totalInvestment, Zero)
    /\ Gt(EffectiveSavings, Zero)

\* C15: with totalInvestment > 0 and effectiveSavings > 0, withInvestment returns the
\* finite values roi = round2(effectiveSavings / totalInvestment * 100), paybackYears =
\* round2(totalInvestment / effectiveSavings), paybackMonths = round1(paybackYears * 12).
ClaimC15_PaybackFigures ==
    Payback =>
        /\ IsFinite(ret.value.roi)
        /\ IsFinite(ret.value.paybackYears)
        /\ IsFinite(ret.value.paybackMonths)
        /\ ret.value.roi =
               roundTo(Mul(Div(EffectiveSavings, ret.value.totalInvestment), Num(100)), 2)
        /\ ret.value.paybackYears =
               roundTo(Div(ret.value.totalInvestment, EffectiveSavings), 2)
        /\ ret.value.paybackMonths = roundTo(Mul(ret.value.paybackYears, Num(12)), 1)

\* 10000 invested against 11427 - 600 a year: 108.27 %, 0.92 years, 11 months
WitnessC15_PaidBackWithinAYear ==
    /\ Payback
    /\ result.netAnnualSavings = Num(11427)
    /\ ret.value.totalInvestment = Num(10000)
    /\ ret.value.annualServiceCost = Num(600)
    /\ ret.value.roi = D2(10827)
    /\ ret.value.paybackYears = D2(92)
    /\ ret.value.paybackMonths = Num(11)

Projected == Returned("calculateProjection")

\* sum of one column of the projection over the years 1..k
RECURSIVE ColumnSum(_, _, _)
ColumnSum(projection, column, k) ==
    IF k = 0 THEN Zero ELSE Add(ColumnSum(projection, column, k - 1), projection[k][column])

TraditionalCostFormula(year) ==
    Add(Add(Mul(result.currentCosts.labor,
                MathPow(Add(One, Mul(result.inputs.annualLaborIncrease, Q(1, 100))), year)),
            Mul(result.currentCosts.fuel,
                MathPow(Add(One, Mul(result.inputs.annualFuelIncrease, Q(1, 100))), year))),
        result.currentCosts.equipment)

FlatRates ==
    result.inputs.annualLaborIncrease = Zero /\ result.inputs.annualFuelIncrease = Zero

\* C17 as stated: traditionalCost of each year is exactly the formula (equipment not
\* compounded); with both rates 0 it is currentCosts.total in all five years.
ClaimC17_TraditionalCostExact ==
    Projected =>
        \A k \in 1..Len(ret.value) :
            /\ ret.value[k].traditionalCost = TraditionalCostFormula(k)
            /\ FlatRates => ret.value[k].traditionalCost = result.currentCosts.total

\* C17 amended: traditionalCost of each year is the formula (equipment not compounded)
\* rounded to two places; with both rates 0 it is currentCosts.total in all five years.
ClaimC17_TraditionalCostRounded ==
    Projected =>
        \A k \in 1..Len(ret.value) :
            /\ ret.value[k].traditionalCost = roundTo(TraditionalCostFormula(k), 2)
            /\ FlatRates => ret.value[k].traditionalCost = result.currentCosts.total

\* a yearly contract of 122.40 rising 10% a year: 122.40 * 1.21 = 148.104, stored 148.10
WitnessC17_SecondYearRounded ==
    /\ Projected
    /\ result.currentCosts.labor = D2(12240)
    /\ result.inputs.annualLaborIncrease = Num(10)
    /\ TraditionalCostFormula(2) = Q(148104, 1000)
    /\ ret.value[2].traditionalCost = D2(14810)

-----------------------------------------------------------------------------
(* Labor savings of the outsourced branch (SpecCalc) *)

IsOutsourced == HasResult /\ result.inputs.maintenanceType = "outsourced"

\* other values a caller may give for laborReduction
LaborReductionChoices == {Undef, NumV(Num(50)), NumV(Num(95)), NumV(NaN), StrV("abc")}

\* inputs that differ from raw only in laborReduction give the same labor savings,
\* gross savings and net annual savings
LaborReductionIgnored ==
    \A l \in LaborReductionChoices :
        LET other == calculateROI([raw EXCEPT !["laborReduction"] = l])
        IN  /\ other.savings.labor = result.savings.labor
            /\ other.savings.gross = result.savings.gross
            /\ other.netAnnualSavings = result.netAnnualSavings

\* C18 as stated: outsourced labor savings are round(monthlyContract * 12 *
\* automationLevel/100 * 0.85), whatever laborReduction is.
ClaimC18_OutsourcedSavingsFromContract ==
    IsOutsourced =>
        /\ result.savings.labor =
               roundTo(Mul(Mul(Mul(result.inputs.monthlyContract, Num(12)),
                               Mul(result.inputs.automationLevel, Q(1, 100))),
                           Q(85, 100)), 2)
        /\ LaborReductionIgnored

\* C18 amended: outsourced labor savings are round(currentCosts.labor *
\* automationLevel/100 * 0.85), where currentCosts.labor = round(monthlyContract * 12)
\* is already rounded to two places, whatever laborReduction is.
ClaimC18_OutsourcedSavingsFromLaborCost ==
    IsOutsourced =>
        /\ result.currentCosts.labor =
               roundTo(Mul(result.inputs.monthlyContract, Num(12)), 2)
        /\ result.savings.labor =
               roundTo(Mul(Mul(result.currentCosts.labor,
                               Mul(result.inputs.automationLevel, Q(1, 100))),
                           Q(85, 100)), 2)
        /\ LaborReductionIgnored

\* a 1000 a month contract, fully automated: 12000 * 0.85 = 10200 saved,
\* for a caller that asked for a labor reduction of 50%
WitnessC18_FullyAutomatedContract ==
    /\ IsOutsourced
    /\ result.inputs.monthlyContract = Num(1000)
    /\ result.inputs.automationLevel = Num(100)
    /\ result.inputs.laborReduction = Num(50)
    /\ result.savings.labor = Num(10200)

-----------------------------------------------------------------------------
(* Infinite metrics on the page (SpecCalc) *)

\* the texts each consumer of the investment metrics shows
Consumers == {"hero", "methodology", "lead"} \cup (IF shown.pdf = NoValue THEN {} ELSE {"pdf"})

\* C19: whenever paybackYears or roi is +Infinity, every consumer of the investment
\* metrics (hero cards, methodology text, lead-capture fields and payload, PDF summary)
\* shows "N/A" for it, and no consumer ever shows "NaN" or "Infinity".
ClaimC19_InfiniteShownAsNotAvailable ==
    shown # NoValue =>
        \A c \in Consumers :
            /\ shown.metrics.paybackYears = PosInf => shown[c].payback = NotAvailable
            /\ shown.metrics.roi = PosInf => shown[c].roi = NotAvailable
            /\ shown[c].payback.kind \in {"N/A", "number"}
            /\ shown[c].roi.kind \in {"N/A", "number"}

-----------------------------------------------------------------------------
(* Wizard navigation (SpecWizard) *)

\* the last goToStep call asked for a step after the one on screen
WentForward == lastGo # NoValue /\ lastGo.step > lastGo.from

\* the last goToStep call must leave the wizard where it was
MustStay ==
    \/ lastGo.step < 1 \/ lastGo.step > 4
    \/ lastGo.step > lastGo.from + 1 /\ lastGo.step > lastGo.maxDone + 1
    \/ lastGo.step > lastGo.from /\ ~lastGo.valid

\* C20: a goToStep call for a later step changes currentStep only if
\* validateStep(currentStep) passed; when validation fails, the step is outside 1..4,
\* or it lies more than one step beyond both currentStep and maxCompletedStep,
\* currentStep and maxCompletedStep are left as they were; a call for an earlier step
\* (within 1..4) always moves there.
ClaimC20_GoToStepValidates ==
    lastGo # NoValue =>
        /\ (WentForward /\ currentStep # lastGo.from) => lastGo.valid
        /\ MustStay => (currentStep = lastGo.from /\ maxCompletedStep = lastGo.maxDone)
        /\ (lastGo.step >= 1 /\ lastGo.step < lastGo.from) =>
               (currentStep = lastGo.step /\ maxCompletedStep = lastGo.maxDone)

\* Next pressed on step 2 with an hourly rate below $10: the wizard stays on step 2
WitnessC20_BlockedOnStepTwo ==
    /\ lastGo # NoValue
    /\ lastGo.step = 3
    /\ lastGo.from = 2
    /\ ~lastGo.valid
    /\ form.hourlyRate = "5"
    /\ currentStep = 2
    /\ maxCompletedStep = 1

-----------------------------------------------------------------------------
(* The projection against the payback figures (SpecCalc) *)

\* laborReduction and automationLevel of the result lie in their documented ranges
ReductionInRange ==
    /\ Geq(result.inputs.laborReduction, Num(50))
    /\ Leq(result.inputs.laborReduction, Num(95))
    /\ Geq(result.inputs.automationLevel, Num(10))
    /\ Leq(result.inputs.automationLevel, Num(100))

\* the projection's annualSavings of year k is within one cent of netAnnualSavings
\* minus the annual service cost
WithinACent(k) ==
    LET effective == Sub(result.netAnnualSavings, NonNegativeOrZero(invest[2]))
        diff      == Sub(ret.value[k].annualSavings, effective)
    IN  Leq(diff, D2(1)) /\ Geq(diff, D2(-1))

\* C23: with both annual increases 0, every year's annualSavings of the projection
\* equals netAnnualSavings - annualServiceCost up to one cent, in-house and outsourced,
\* for every laborReduction in [50, 95].
ClaimC23_ProjectionMatchesEffectiveSavings ==
    (Projected /\ FlatRates /\ ReductionInRange) =>
        \A k \in 1..Len(ret.value) : WithinACent(k)

\* the same for the in-house branch only
InhouseProjectionMatches ==
    (Projected /\ FlatRates /\ ReductionInRange /\ ~IsOutsourced) =>
        \A k \in 1..Len(ret.value) : WithinACent(k)

\* an in-house projection with flat rates exists
InhouseFlatProjection ==
    Projected /\ FlatRates /\ ReductionInRange /\ ~IsOutsourced

-----------------------------------------------------------------------------
(* The lead endpoint *)

InitEndpoint ==
    /\ raw = ExampleInput
    /\ resolved = NoValue
    /\ result = NoValue
    /\ invest = <<Undef, Undef>>
    /\ ret = NoValue
    /\ args = <<StrV("commercial"), NumV(Num(10)), NumV(Num(50)), BoolV(FALSE)>>
    /\ EquipInit /\ UiInit /\ LeadInit

NextEndpoint ==
    \/ \E req \in Requests : OnRequestPost(req)
    \/ JsonSettles
    \/ \E outcome \in ResendOutcomes : ResendSettles(outcome)

SpecEndpoint == InitEndpoint /\ [][NextEndpoint]_vars

\* the positions of the character ch in the text c
Positions(c, ch) == {i \in 1..Len(c) : c[i] = ch}

\* an address: no white space, one @ with text before it, and after it a dot with text
\* on both sides
IsAddress(c) ==
    /\ \A i \in 1..Len(c) : ~IsSpace(c[i])
    /\ Cardinality(Positions(c, "@")) = 1
    /\ \E at \in Positions(c, "@") :
          /\ at > 1
          /\ \E dot \in Positions(c, ".") : dot > at + 1 /\ dot < Len(c)

\* name and email present (truthy) and the email, as text, an address
WellFormed(req) ==
    /\ req.body = "object"
    /\ req.name.truthy
    /\ req.email.truthy
    /\ IsAddress(req.email.c)

\* C21: the email API is called only for a request whose name and email are present
\* and whose email matches the address pattern; any other request whose body is a JSON
\* object is answered 400 with no call; 200 is answered only after the call, 500 when
\* the call did not end OK, when the body is no JSON and when an exception occurs; every
\* response carries the CORS headers.
ClaimC21_LeadEndpoint ==
    /\ srv.calls > 0 => WellFormed(srv.req)
    /\ srv.pc = "done" =>
          /\ corsHeaders \subseteq srv.resp.headers
          /\ srv.resp.status \in {200, 400, 500}
          /\ srv.resp.status = 200 => (srv.calls = 1 /\ srv.resp.body = "success")
          /\ srv.resp.status = 400 <=> (srv.req.body = "object" /\ ~WellFormed(srv.req))
          /\ srv.resp.status = 400 => srv.calls = 0
          /\ srv.req.body \in {"unparsable", "null"} => srv.resp.status = 500

\* a request with the address a.b@c.d.e, answered 500 after the email API answered not-OK
WitnessC21_ApiNotOk ==
    /\ srv.pc = "done"
    /\ srv.calls = 1
    /\ srv.req.email = JsonText(<<"a", ".", "b", "@", "c", ".", "d", ".", "e">>)
    /\ srv.resp = Response(500, "Failed to send email")

-----------------------------------------------------------------------------
(* The lead form *)

InitLead ==
    /\ raw = ExampleInput
    /\ resolved = NoValue
    /\ result = NoValue
    /\ invest = <<Undef, Undef>>
    /\ ret = NoValue
    /\ args = <<StrV("commercial"), NumV(Num(10)), NumV(Num(50)), BoolV(FALSE)>>
    /\ EquipInit /\ UiInit
    /\ lead = LeadForm
    /\ srv = Idle

NextLead ==
    \/ \E caller \in {"auto", "app"} : LeadCaptureInit(caller)
    \/ \E f \in DOMAIN LeadChoices : \E c \in LeadChoices[f] : EditLead(f, c)
    \/ Submit
    \/ \E outcome \in LeadOutcomes : ResponseArrives(outcome)
    \/ StartOver

SpecLead == InitLead /\ [][NextLead]_vars

\* C22: while a lead request is in flight the submit button is disabled and at most one
\* request is in flight; a submission failing validation sends no request; after a
\* failed request the error status is shown and the button is enabled with its original
\* label; after a success the form is reset and hidden and the success status is shown.
ClaimC22_NoDoubleSubmit ==
    lead # NoValue =>
        /\ lead.inflight <= 1
        /\ lead.inflight > 0 => lead.disabled
        /\ lead.event # NoValue =>
              /\ (lead.event.kind = "submit" /\ ~lead.event.valid) => lead.event.sent = 0
              /\ (lead.event.kind = "response" /\ ~lead.event.ok) =>
                    /\ ~lead.status.hidden /\ lead.status.class = "form-error"
                    /\ ~lead.disabled /\ lead.label = "original"
              /\ (lead.event.kind = "response" /\ lead.event.ok) =>
                    /\ lead.name = <<>> /\ lead.email = <<>>
                    /\ ~lead.displayed
                    /\ ~lead.status.hidden /\ lead.status.class = "form-success"

\* C28: whenever the lead form is displayed and no lead request is in flight, its
\* submit button is enabled.
ClaimC28_VisibleFormCanBeSubmitted ==
    (lead # NoValue /\ lead.displayed /\ lead.inflight = 0) => ~lead.disabled

-----------------------------------------------------------------------------
(* The wizard: what runCalculation computes and when *)

\* a calculation has run and both the cost engine and Equipment.recommend returned
Calculated == result # NoValue /\ HasRecommendation

\* the automated area the cost engine charges for
ChargedAcreage == Mul(result.inputs.acreage, Mul(result.inputs.automationLevel, Q(1, 100)))

\* C24 as stated: for every gathered input Equipment.recommend's targetAcreage equals
\* the resolved acreage times the resolved automationLevel / 100 of calculateROI.
ClaimC24_SameAutomatedArea ==
    Calculated => rec.targetAcreage = ChargedAcreage

\* C24: for every gathered input whose automationLevel lies in [25, 100] the
\* targetAcreage of Equipment.recommend equals the resolved acreage times the resolved
\* automationLevel / 100 of calculateROI.
ClaimC24_SameAreaFromAQuarter ==
    (Calculated /\ Leq(Num(25), args[3].v) /\ Leq(args[3].v, Num(100))) =>
        rec.targetAcreage = ChargedAcreage

\* five acres with the slider at 50: both components work with two and a half acres
WitnessC24_HalfOfFiveAcres ==
    /\ Calculated
    /\ args[3] = NumV(Num(50))
    /\ result.inputs.acreage = Num(5)
    /\ rec.targetAcreage = Q(5, 2)

\* C25: whatever the sequence of field edits, Next/Back clicks, progress-bar clicks and
\* Calculate clicks, runCalculation executes only when the form values at that moment
\* pass both validateStep(1) and validateStep(2).
ClaimC25_CalculatesValidatedInput ==
    ranOn # NoValue => (ranOn.step1 /\ ranOn.step2)

\* the ranges of the two step counters and the order between them
StepsInRange ==
    /\ currentStep \in 1..4
    /\ maxCompletedStep \in 0..3
    /\ currentStep <= maxCompletedStep + 1

\* a step that lowers maxCompletedStep is a start over: it ends with no step completed,
\* on step 1, with an empty form and no results
OnlyStartOverLowers ==
    maxCompletedStep' < maxCompletedStep =>
        /\ maxCompletedStep' = 0
        /\ currentStep' = 1
        /\ form' = EmptyForm
        /\ result' = NoValue

\* C26: after any sequence of goToStep(n), runCalculation and startOver calls,
\* 1 <= currentStep <= 4, 0 <= maxCompletedStep <= 3 and currentStep <=
\* maxCompletedStep + 1; maxCompletedStep never decreases except through startOver,
\* which resets it to 0 with currentStep = 1.
ClaimC26_StepCountersStayOrdered ==
    [](StepsInRange) /\ [][OnlyStartOverLowers]_vars

\* the results are shown: all three steps completed, the wizard on step 4
WitnessC26_ResultsStep ==
    /\ currentStep = 4
    /\ maxCompletedStep = 3
    /\ lastGo # NoValue
    /\ lastGo.step = 4

\* the result variables of the wizard that the model keeps under other names
investmentMetrics == IF shown = NoValue THEN NoValue ELSE shown.metrics

\* which of calculationResults, equipmentRecommendation, investmentMetrics and
\* projectionData are null
ResultsNull == {result = NoValue, rec = NoValue, investmentMetrics = NoValue, ret = NoValue}

\* C27: after any sequence of goToStep(n), runCalculation and startOver calls, whenever
\* currentStep = 4 the four result variables are all non-null, and they are always
\* either all null or all non-null.
ClaimC27_ResultsShownAreComplete ==
    /\ ResultsNull \in {{TRUE}, {FALSE}}
    /\ currentStep = 4 => ResultsNull = {FALSE}

-----------------------------------------------------------------------------
(* Calculator: savings against costs *)

\* lo <= x <= hi, as JavaScript compares numbers
Within(lo, x, hi) == Leq(lo, x) /\ Leq(x, hi)

\* the savings, the hours saved and the reduced staff, each between 0 and what it is
\* taken from
SavingsWithinCosts ==
    /\ Within(Zero, result.savings.labor, result.currentCosts.labor)
    /\ Within(Zero, result.savings.fuel, result.currentCosts.fuel)
    /\ Within(Zero, result.savings.equipment, result.currentCosts.equipment)
    /\ Leq(result.savings.gross, result.currentCosts.total)
    /\ Within(Zero, result.labor.hoursSaved, result.labor.currentHours)

\* C29: for all resolved inputs 0 <= savings.labor <= currentCosts.labor, 0 <=
\* savings.fuel <= currentCosts.fuel, 0 <= savings.equipment <= currentCosts.equipment,
\* savings.gross <= currentCosts.total, 0 <= labor.hoursSaved <= labor.currentHours and
\* 0 <= labor.reducedFTE <= labor.currentFTE.
ClaimC29_NeverSavesMoreThanSpent ==
    result # NoValue =>
        /\ SavingsWithinCosts
        /\ Within(Zero, result.labor.reducedFTE, result.labor.currentFTE)

\* the automation goals of the result are numbers
GoalsAreNumbers ==
    ~IsNaN(result.inputs.automationLevel) /\ ~IsNaN(result.inputs.laborReduction)

\* the same for results whose automation goals are numbers, the staff left aside
SavingsWithinCostsOfNumbers ==
    (result # NoValue /\ GoalsAreNumbers) => SavingsWithinCosts

\* the same for the staff of results whose automation goals are numbers
ReducedStaffWithinStaff ==
    (result # NoValue /\ GoalsAreNumbers) =>
        Within(Zero, result.labor.reducedFTE, result.labor.currentFTE)

-----------------------------------------------------------------------------
(* Equipment: the totals of a recommendation *)

RECURSIVE SumOfAmounts(_)
\* the amounts of the rows, added from the first row on
SumOfAmounts(rows) ==
    IF rows = <<>> THEN Zero
    ELSE Add(SumOfAmounts(SubSeq(rows, 1, Len(rows) - 1)), rows[Len(rows)].amount)

\* C30: in every recommendation the amounts of breakdown[] sum to
\* costs.totalInvestment, the amounts of annualBreakdown[] sum to costs.annualService,
\* and costs.totalEquipment + costs.installation + costs.setup = costs.totalInvestment.
ClaimC30_RecommendationAddsUp ==
    HasRecommendation =>
        /\ SumOfAmounts(rec.breakdown) = rec.costs.totalInvestment
        /\ SumOfAmounts(rec.annualBreakdown) = rec.costs.annualService
        /\ Add(Add(rec.costs.totalEquipment, rec.costs.installation), rec.costs.setup)
               = rec.costs.totalInvestment

\* a recommendation of several units with a setup charge
WitnessC30_SeveralUnits ==
    /\ HasRecommendation
    /\ Gt(rec.unitsNeeded, One)
    /\ Gt(rec.costs.setup, Zero)
    /\ Gt(rec.costs.totalInvestment, rec.costs.totalEquipment)

=============================================================================
